---- MODULE Spec2Model ----
(***************************************************************************)
(* Verification model of the equation-to-geometry engine of graphyti       *)
(* (GraphRenderer.tsx and utils/customEquationUtils.ts).                   *)
(*                                                                         *)
(* JavaScript numbers are modelled in fixed point: a finite number is an   *)
(* integer count of thousandths (1.2 is 1200).  NaN, +-Infinity and a      *)
(* thrown exception are separate kinds of outcome.  Texts are sequences of *)
(* one-character strings.                                                  *)
(***************************************************************************)
EXTENDS Integers, Sequences, FiniteSets, TLC

VARIABLES
    \* ---- what a build is given (GraphRenderer props, function arguments) ----
    builder,          \* the geometry function that runs
    graph,            \* catalog graph: [name, equation_latex]
    equation,         \* custom equation text
    controlValues,    \* parameter map handed to the build
    scope,            \* custom variable scope (createCustomGraphGeometry)
    resolution,       \* number of steps of the sweep
    \* ---- 2D sweep (create2DFunctionGeometry / createCustom2DCurve) ----
    i,                \* outer loop index (2D sweep, 3D grid)
    currentSegment,   \* points of the segment being built
    segments,         \* flushed segments
    samples,          \* what happened at each sample so far: "valid" / "fault"
    polyline,         \* points handed to setFromPoints
    pc2d,             \* "sweep" | "done" | "idle"
    \* ---- classifier (createCustomGraph) ----
    customGraph,      \* the CustomGraph returned, NullGraph before
    \* ---- scope construction ----
    evalScope,        \* the scope last passed to evaluate()
    evalPath,         \* the function that built it
    sampleAt,         \* the coordinates of the sample it was built for
    \* ---- 3D grids ----
    j,                \* inner loop index
    sign,             \* sheet of createHyperboloidTwoSheetsGeometry
    vertices,         \* vertices written so far
    indices,          \* index buffer so far
    vertexIndex,      \* vertexIndex of the hyperboloid builders
    cellFault,        \* for each vertex: did its height computation fault
    pc3d,             \* "vertices" | "indices" | "done" | "idle"
    \* ---- normalizer (convertLatexToMathjs) ----
    latex,            \* the text handed to convertLatexToMathjs
    expr,             \* the text it returns
    pcNorm,           \* "convert" | "done" | "idle"
    \* ---- domain validator (validateDomain) ----
    domainArgs,       \* the arguments of the call: [equation, x, hasY, y]
    domainCheck,      \* "pending" | "valid" | "invalid" | "idle"
    \* ---- one call of a point calculator ----
    calcFn,           \* the calculator called
    equationCount,    \* pieces of graph.equation_latex.split(',')
    callTrace,        \* the steps the call went through, in order
    calcAt,           \* the point handed to the calculator: [x, y]
    calcResult,       \* what calculateSurfaceZ returned
    pcCalc,           \* "call" | "done" | "idle"
    \* ---- GraphRenderer ----
    evals,            \* the kinds of outcome of point evaluation during the build
    geometry,         \* what the geometry useMemo produced
    material,         \* what the material useMemo produced
    primitive,        \* the element GraphRenderer returns: "Line" | "mesh"
    lastGood,         \* the geometry of the last build whose formula text parsed
    pcRender,         \* "mounted" | "rendered" | "idle"
    \* ---- App ----
    selectedCategory, \* useState: the category shown in the sidebar
    selectedGraph,    \* useState: the graph handed to the canvas
    navHistory,       \* the graphs selected by the last presses of Previous / Next
    pcApp,            \* "effect" (reset effect pending) | "ready" | "idle"
    \* ---- CanvasInspector ----
    now,              \* Date.now(), in ms
    lastCallTime,     \* lastCallTimeRef.current
    lastSceneUpdate,  \* lastSceneUpdateRef.current
    sceneObjects,     \* the graph objects in the scene
    cacheObjects,     \* intersectableObjectsCache.current
    tooltipFrom,      \* the object the reported coordinates lie on, 0 for none
    raycastTimes,     \* the times at which handleRaycast ran
    lastEvent,        \* "raycast" | "dropped" | "graph" | "mounted" | "idle"
    \* ---- RightCanvas ----
    isRotating,       \* the state as the last setIsRotating left it
    isPanMode,        \* the state as the last setIsPanMode left it
    renderedRotating, \* isRotating as the handlers of the last render see it
    renderedPanMode,  \* isPanMode as the handlers of the last render see it
    controlsMounted,  \* controlsRef.current is set
    autoRotate,       \* controlsRef.current.autoRotate
    enableRotate,     \* controlsRef.current.enableRotate
    cameraView,       \* "initial" | "x" | "y" | "z"
    dolly,            \* dollyIn steps less dollyOut steps
    handlersRun,      \* handlers run since the last render
    lastHandler       \* the handler that ran last, "none", or "idle"

inputs == <<builder, graph, equation, controlValues, scope, resolution>>
vars2d == <<currentSegment, segments, samples, polyline, pc2d>>
varsClassify == <<customGraph>>
varsScope == <<evalScope, evalPath, sampleAt>>
vars3d == <<j, sign, vertices, indices, vertexIndex, cellFault, pc3d>>

varsNorm == <<latex, expr, pcNorm>>
\* the state outside the sweeps, the classifier and the scopes
varsDomain == <<domainArgs, domainCheck>>
varsCalc == <<calcFn, equationCount, callTrace, calcAt, calcResult, pcCalc>>
varsRender == <<evals, geometry, material, primitive, lastGood, pcRender>>
varsApp == <<selectedCategory, selectedGraph, navHistory, pcApp>>
\* the state of the user interface around the canvas
varsInspect ==
    <<now, lastCallTime, lastSceneUpdate, sceneObjects, cacheObjects, tooltipFrom,
      raycastTimes, lastEvent>>
varsCanvas ==
    <<isRotating, isPanMode, renderedRotating, renderedPanMode, controlsMounted,
      autoRotate, enableRotate, cameraView, dolly, handlersRun, lastHandler>>
varsUI == <<varsApp, varsInspect, varsCanvas>>
varsMore == <<varsNorm, varsDomain, varsCalc, varsRender, varsUI>>
\* the state of the builders, the classifier and the scopes
varsCore == <<inputs, i, vars2d, varsClassify, varsScope, vars3d>>

vars == <<inputs, i, vars2d, varsClassify, varsScope, vars3d, varsMore>>

----------------------------------------------------------------------------
(* Bounds of the model *)

\* longest sweep explored with arbitrary per-sample outcomes
MaxRes == 4

(* Program constants *)
range == 10
DefaultResolution == 50
CustomResolution == 200
\* the sweep of the 1/x scenario: steps of 1 over [-range, range]
ScenarioResolution == 2 * range

----------------------------------------------------------------------------
(* JavaScript values *)

Num(v) == [k |-> "num", v |-> v]
NaN == [k |-> "nan", v |-> 0]
Infinity == [k |-> "inf", v |-> 1]
Thrown == [k |-> "throw", v |-> 0]

isNaN(r) == r.k = "nan"
isFinite(r) == r.k = "num"

Abs(n) == IF n < 0 THEN -n ELSE n
Min(a, b) == IF a < b THEN a ELSE b
Max(a, b) == IF a > b THEN a ELSE b

\* a * b of two fixed-point numbers
Mul(a, b) == (a * b) \div 1000

\* controlValues.name || d : an absent key and the value 0 both give d
OrDefault(cv, name, d) ==
    IF name \in DOMAIN cv /\ cv[name] # 0 THEN cv[name] ELSE d

\* { ...base, ...over } : keys of over win
Spread(base, over) ==
    [n \in DOMAIN base \cup DOMAIN over |->
        IF n \in DOMAIN over THEN over[n] ELSE base[n]]

EmptyMap == [n \in {} |-> 0]

----------------------------------------------------------------------------
(* Texts *)

RECURSIVE IncludesFrom(_, _, _)
IncludesFrom(s, sub, from) ==
    IF from + Len(sub) - 1 > Len(s) THEN FALSE
    ELSE IF SubSeq(s, from, from + Len(sub) - 1) = sub THEN TRUE
    ELSE IncludesFrom(s, sub, from + 1)

\* String.prototype.includes
Includes(s, sub) == IncludesFrom(s, sub, 1)

\* String.prototype.startsWith
StartsWith(s, sub) == Len(sub) <= Len(s) /\ SubSeq(s, 1, Len(sub)) = sub

LowerOf(c) ==
    CASE c = "Z" -> "z"
      [] c = "X" -> "x"
      [] c = "Y" -> "y"
      [] c = "T" -> "t"
      [] c = "L" -> "l"
      [] c = "O" -> "o"
      [] c = "G" -> "g"
      [] c = "N" -> "n"
      [] OTHER -> c

\* String.prototype.toLowerCase
ToLowerCase(s) == [n \in 1..Len(s) |-> LowerOf(s[n])]

RECURSIVE TrimStart(_)
TrimStart(s) ==
    IF Len(s) > 0 /\ s[1] = " " THEN TrimStart(Tail(s)) ELSE s

RECURSIVE TrimEnd(_)
TrimEnd(s) ==
    IF Len(s) > 0 /\ s[Len(s)] = " " THEN TrimEnd(SubSeq(s, 1, Len(s) - 1)) ELSE s

\* String.prototype.trim
Trim(s) == TrimEnd(TrimStart(s))

----------------------------------------------------------------------------
(* validateDomain (customEquationUtils.ts) *)

\* odd multiples of pi/2 inside the sweep range, in millionths
TanPolesMicro == {1570796, 4712389, 7853982}

\* Math.abs(Math.cos(x)) < 1e-6 : x lies within a millionth of a pole
NearDiscontinuity(x) ==
    \E p \in TanPolesMicro : Abs(Abs(x) * 1000 - p) < 1

\* a logarithm check that lets the coordinate 0 through
LogRejectsNegative(c) == c < 0

\* if (x <= 0) return { isValid: false, ... }
LogRejects(c) == c <= 0

\* validateDomain(equation, x, y?) ; hasY = FALSE is the call without y
validateDomain(eq, x, hasY, y) ==
    LET lowerEq == ToLowerCase(eq)
        isLog == Includes(lowerEq, <<"l","o","g">>) \/ Includes(lowerEq, <<"l","n">>)
        isSqrt == Includes(lowerEq, <<"s","q","r","t">>)
    IN  IF isLog /\ LogRejects(x) THEN FALSE
        ELSE IF isLog /\ hasY /\ LogRejects(y) /\ Includes(lowerEq, <<"y">>) THEN FALSE
        ELSE IF isSqrt /\ x < 0 THEN FALSE
        ELSE IF isSqrt /\ hasY /\ y < 0 /\ Includes(lowerEq, <<"y">>) THEN FALSE
        \* Math.abs(x) < 1e-10
        ELSE IF Includes(lowerEq, <<"1","/","x">>) /\ Abs(x) < 1 THEN FALSE
        ELSE IF Includes(lowerEq, <<"t","a","n">>) /\ NearDiscontinuity(x) THEN FALSE
        ELSE TRUE

----------------------------------------------------------------------------
(* The evaluator (mathjs evaluate) as seen by the engine *)

ReciprocalName == "Reciprocal Function (Hyperbola)"
GenericName == "Generic Function"

EqReciprocal == <<"1", "/", "x">>
EqLog == <<"l", "o", "g", "(", "x", ")">>
\* an expression without domain signature whose value at each point is an input
EqAny == <<"g", "(", "x", ")">>

\* what evaluate() can do at one sample point
EvalOutcomes == {Num(1000), Num(200000), NaN, Infinity, Thrown}

\* 1 / x in JavaScript
Reciprocal(x) == IF x = 0 THEN Infinity ELSE Num(1000000 \div x)

\* Math.cos at x = 0, 0.1, ..., 20, in millionths
CosMicroTable ==
    <<
     1000000, 995004, 980067, 955336, 921061, 877583, 825336, 764842,
     696707, 621610, 540302, 453596, 362358, 267499, 169967, 70737, -29200,
     -128844, -227202, -323290, -416147, -504846, -588501, -666276,
     -737394, -801144, -856889, -904072, -942222, -970958, -989992,
     -999135, -998295, -987480, -966798, -936457, -896758, -848100,
     -790968, -725932, -653644, -574824, -490261, -400799, -307333,
     -210796, -112153, -12389, 87499, 186512, 283662, 377978, 468517,
     554374, 634693, 708670, 775566, 834713, 885520, 927478, 960170,
     983268, 996542, 999859, 993185, 976588, 950233, 914383, 869397,
     815725, 753902, 684547, 608351, 526078, 438547, 346635, 251260,
     153374, 53955, -46002, -145500, -243544, -339155, -431377, -519289,
     -602012, -678720, -748647, -811093, -865435, -911130, -947722,
     -974844, -992225, -999693, -997172, -984688, -962365, -930426,
     -889191, -839072, -780568, -714266, -640826, -560984, -475537,
     -385338, -291289, -194330, -95429, 4426, 104236, 203005, 299745,
     393491, 483305, 568290, 647596, 720432, 786070, 843854, 893206,
     933634, 964733, 986192, 997798, 999435, 991085, 972833, 944860,
     907447, 860967, 805884, 742749, 672193, 594921, 511704, 423375,
     330815, 234950, 136737, 37158, -62792, -162114, -259817, -354924,
     -446485, -533584, -615352, -690972, -759688, -820813, -873737,
     -917931, -952953, -978453, -994178, -999968, -995768, -981618,
     -957659, -924133, -881372, -829806, -769948, -702397, -627828,
     -546986, -460679, -369768, -275163, -177809, -78678, 21239, 120944,
     219440, 315744, 408893, 497956, 582044, 660317, 731991, 796352,
     852757, 900640, 939525, 969022, 988837, 998772, 998728, 988705,
     968802, 939220, 900254, 852292, 795815, 731386, 659649, 581322,
     497186, 408082
    >>

\* Math.tan at x = 0, 0.1, ..., 20, in thousandths
TanMilliTable ==
    <<
     0, 100, 203, 309, 423, 546, 684, 842, 1030, 1260, 1557, 1965, 2572,
     3602, 5798, 14101, -34233, -7697, -4286, -2927, -2185, -1710, -1374,
     -1119, -916, -747, -602, -473, -356, -246, -143, -42, 58, 160, 264,
     375, 493, 625, 774, 947, 1158, 1424, 1778, 2286, 3096, 4637, 8860,
     80713, -11385, -5267, -3381, -2449, -1886, -1501, -1218, -996, -814,
     -660, -525, -403, -291, -185, -83, 17, 117, 220, 328, 443, 568, 709,
     871, 1065, 1305, 1617, 2049, 2706, 3852, 6443, 18507, -21715, -6800,
     -3982, -2774, -2091, -1646, -1326, -1082, -886, -721, -579, -452,
     -337, -229, -125, -25, 75, 177, 282, 394, 515, 648, 801, 980, 1198,
     1476, 1850, 2395, 3284, 5048, 10431, -225951, -9541, -4823, -3183,
     -2336, -1811, -1448, -1177, -963, -786, -636, -503, -384, -273, -168,
     -66, 34, 134, 238, 347, 463, 591, 735, 901, 1101, 1351, 1679, 2140,
     2853, 4137, 7245, 26893, -15894, -6087, -3717, -2634, -2004, -1585,
     -1281, -1046, -856, -696, -557, -432, -318, -211, -108, -8, 92, 194,
     301, 413, 536, 673, 829, 1013, 1240, 1530, 1927, 2513, 3494, 5534,
     12671, -47073, -8208, -4446, -3005, -2232, -1742, -1397, -1137, -931,
     -760, -612, -483, -365, -255, -151, -50, 50, 152, 256, 366, 484, 614,
     761, 932, 1139, 1400, 1745, 2237
    >>

\* Math.cos(x) for x a multiple of 0.1, in millionths
Cos(x) == CosMicroTable[Abs(x) \div 100 + 1]

\* Math.tan(x) for x a multiple of 0.1
Tan(x) ==
    IF x < 0 THEN -TanMilliTable[(-x) \div 100 + 1] ELSE TanMilliTable[x \div 100 + 1]

EqTan == <<"t", "a", "n", "(", "x", ")">>

\* evaluate(expr, scope) for the expressions of the model: the set of outcomes
Evaluate(eq, sc) ==
    IF eq = EqReciprocal THEN {Reciprocal(sc["x"])}
    ELSE IF eq = EqTan THEN {Num(Tan(sc["x"]))}
    ELSE EvalOutcomes

----------------------------------------------------------------------------
(* Scopes, and calculate2DFunction *)

\* generateVariableControls: the defaultValue given to a variable
DefaultValue(name) ==
    CASE name \in {"a", "b", "c"} -> 2000
      [] name \in {"r", "radius"} -> 3000
      [] name \in {"theta", "phi"} -> 0
      [] name = "n" -> 2000
      [] OTHER -> 1000

\* calculateSurfaceZ, generic branch: { ...{ x, y, a: 2, ... }, ...controlValues }
GenericSurfaceScope(x, y, cv) ==
    Spread([n \in {"x", "y", "a", "b", "c", "r", "R"} |->
               CASE n = "x" -> x
                 [] n = "y" -> y
                 [] n = "R" -> 3000
                 [] OTHER -> 2000],
           cv)

\* calculatePolar, generic branch: { ...{ theta, r: 2, ... }, ...controlValues }
GenericPolarScope(theta, cv) ==
    Spread([n \in {"theta", "r", "a", "k", "pi", "e"} |->
               CASE n = "theta" -> theta
                 [] n = "k" -> 4000
                 [] n = "pi" -> 3142
                 [] n = "e" -> 2718
                 [] OTHER -> 2000],
           cv)

\* createCustomGraphGeometry:
\* scope[variable.name] = controlValues[variable.name] || variable.defaultValue
CustomScope(variables, cv) ==
    [n \in {v.name : v \in variables} |-> OrDefault(cv, n, DefaultValue(n))]

\* createCustom2DCurve: evalScope = { ...scope, x }
Custom2DScope(sc, x) == Spread(sc, [n \in {"x"} |-> x])

\* createCustom3DSurface: evalScope = { ...scope, x, y }
Custom3DScope(sc, x, y) == Spread(sc, [n \in {"x", "y"} |-> IF n = "x" THEN x ELSE y])

\* calculate2DFunction, generic branch: the scope literal
Base2DScope(x) ==
    [n \in {"x", "a", "b", "c", "d", "k", "A", "B", "C", "D", "r", "t", "I",
            "I_0", "V", "V_T", "n", "f", "phi", "omega", "gamma", "h", "hbar",
            "kB", "lambda", "T", "pi", "e", "E"} |->
        CASE n \in {"x", "t", "V", "E"} -> x
          [] n \in {"a", "b", "k", "A", "B", "I", "I_0", "n", "omega"} -> 1000
          [] n \in {"c", "d", "C", "D", "phi", "h", "hbar", "kB"} -> 0
          [] n = "r" -> 2000
          [] n = "V_T" -> 26
          [] n = "f" -> Abs(x)
          [] n = "gamma" -> 100
          [] n = "lambda" -> Abs(x) + 1000
          [] n = "T" -> 300000
          [] n = "pi" -> 3142
          [] n = "e" -> 2718]

\* scope of the generic branch: extendedScope = { ...scope, ...controlValues }
Generic2DScope(x, cv) == Spread(Base2DScope(x), cv)

TangentName == "Tangent Function"

\* calculate2DFunction, branch 'Tangent Function'
TangentValue(x, cv) ==
    LET amplitude == OrDefault(cv, "amplitude", 1000)
        frequency == OrDefault(cv, "frequency", 1000)
        phase == OrDefault(cv, "phase", 0)
        scaledX == Mul(frequency, x) + phase
        tanValue == Mul(amplitude, Tan(scaledX))
    IN  \* tolerance = 0.01
        IF Abs(Cos(scaledX)) < 10000 THEN NaN
        ELSE IF Abs(tanValue) > 100000 THEN NaN
        ELSE Num(tanValue)

\* ev: the outcome of evaluate() on the generic branch at this point
calculate2DFunction(g, x, cv, ev) ==
    IF g.name = TangentName THEN TangentValue(x, cv)
    ELSE IF g.name = ReciprocalName
    THEN IF x # 0 THEN Reciprocal(x) ELSE Num(0)
    ELSE IF g.equation_latex = "undefined"
    \* convertLatexToMathjs(undefined) throws in the try block and again in
    \* the catch handler that logs the converted expression
    THEN Thrown
    ELSE IF ev.k = "throw" THEN NaN
    ELSE IF isNaN(ev) \/ ~isFinite(ev) THEN NaN
    ELSE Num(Max(-100000, Min(100000, ev.v)))

\* the outcomes evaluate() can have inside calculate2DFunction
CatalogEvalOutcomes(g, x, cv) ==
    IF g.name \in {ReciprocalName, TangentName} \/ g.equation_latex = "undefined"
    THEN {NaN}  \* evaluate() is not reached
    ELSE EvalOutcomes

----------------------------------------------------------------------------
(* The 2D sweep *)

\* x = -range + i * step, step = (2 * range) / resolution
XAt(n, res) == -(range * 1000) + (2 * range * 1000 * n) \div res

Point(n, x, y) == [i |-> n, x |-> x, y |-> y, z |-> 0]

\* a flush that asks for more than two points
FlushLonger(segs, cur) == IF Len(cur) > 2 THEN Append(segs, cur) ELSE segs

\* if (currentSegment.length > 1) segments.push([...currentSegment])
Flush(segs, cur) == IF Len(cur) > 1 THEN Append(segs, cur) ELSE segs

\* a fault that leaves the segment being built in place
KeepSegment(cur) == cur

\* currentSegment after a fault
ResetSegment(cur) == <<>>

\* a sweep end that forgets the segment being built
NoFinalFlush(segs, cur) == segs

\* the final flush after the loop
FinalFlush(segs, cur) == Flush(segs, cur)

RECURSIVE LongestFrom(_, _, _)
LongestFrom(segs, n, longest) ==
    IF n > Len(segs) THEN longest
    ELSE LongestFrom(segs, n + 1,
                     IF Len(segs[n]) > Len(longest) THEN segs[n] ELSE longest)

RECURSIVE LastLongestFrom(_, _, _)
LastLongestFrom(segs, n, longest) ==
    IF n > Len(segs) THEN longest
    ELSE LastLongestFrom(segs, n + 1,
                         IF Len(segs[n]) >= Len(longest) THEN segs[n] ELSE longest)

\* a selection that replaces the candidate on equal length
LastLongestSegment(segs) == LastLongestFrom(segs, 1, segs[1])

\* let longestSegment = segments[0]; for (const segment of segments) ...
LongestSegment(segs) == LongestFrom(segs, 1, segs[1])

\* one iteration of the loop of create2DFunctionGeometry
Sample2DFunction ==
    /\ pc2d = "sweep"
    /\ builder = "create2DFunctionGeometry"
    /\ i <= resolution
    /\ LET x == XAt(i, resolution)
           xScale == OrDefault(controlValues, "xScale", 1000)
           yScale == OrDefault(controlValues, "yScale", 1000)
       IN  \E ev \in CatalogEvalOutcomes(graph, x, controlValues) :
             LET y == calculate2DFunction(graph, x, controlValues, ev)
             IN  IF y.k = "throw" \/ isNaN(y) \/ ~isFinite(y)
                 THEN /\ segments' = Flush(segments, currentSegment)
                      /\ currentSegment' = ResetSegment(currentSegment)
                      /\ samples' = Append(samples, "fault")
                 ELSE /\ segments' = segments
                      /\ currentSegment' =
                            Append(currentSegment,
                                   Point(i, Mul(x, xScale), Mul(y.v, yScale)))
                      /\ samples' = Append(samples, "valid")
    /\ i' = i + 1
    /\ UNCHANGED <<inputs, varsMore, polyline, pc2d, varsClassify, varsScope, vars3d>>

\* one iteration of the loop of createCustom2DCurve
SampleCustom2D ==
    /\ pc2d = "sweep"
    /\ builder = "createCustom2DCurve"
    /\ i <= resolution
    /\ LET x == XAt(i, resolution)
           xScope == Custom2DScope(scope, x)
       IN  IF ~validateDomain(equation, x, FALSE, 0)
           THEN /\ segments' = Flush(segments, currentSegment)
                /\ currentSegment' = ResetSegment(currentSegment)
                /\ samples' = Append(samples, "fault")
           ELSE \E y \in Evaluate(equation, xScope) :
                  IF y.k = "throw" \/ isNaN(y) \/ ~isFinite(y)
                  THEN /\ segments' = Flush(segments, currentSegment)
                       /\ currentSegment' = ResetSegment(currentSegment)
                       /\ samples' = Append(samples, "fault")
                  ELSE /\ segments' = segments
                       /\ currentSegment' =
                             Append(currentSegment,
                                    Point(i, x, Max(-50000, Min(50000, y.v))))
                       /\ samples' = Append(samples, "valid")
    /\ i' = i + 1
    /\ UNCHANGED <<inputs, varsMore, polyline, pc2d, varsClassify, varsScope, vars3d>>

\* after the loop: final flush, then the longest segment is returned
Finish2D ==
    /\ pc2d = "sweep"
    /\ i > resolution
    /\ segments' = FinalFlush(segments, currentSegment)
    /\ polyline' = IF Len(segments') = 0 THEN <<>> ELSE LongestSegment(segments')
    /\ pc2d' = "done"
    /\ UNCHANGED <<inputs, varsMore, i, currentSegment, samples, varsClassify, varsScope,
                   vars3d>>

\* the parameter maps of the model
ScaleMaps ==
    {EmptyMap,
     [n \in {"xScale", "yScale"} |-> IF n = "xScale" THEN 2000 ELSE 3000],
     [n \in {"xScale"} |-> 0]}

WithResolution(cv, res) == Spread(cv, [n \in {"resolution"} |-> res])

GenericGraph == [name |-> GenericName, equation_latex |-> "y = f(x)"]
NoLatexGraph == [name |-> GenericName, equation_latex |-> "undefined"]
ReciprocalGraph == [name |-> ReciprocalName, equation_latex |-> "y = \\frac{1}{x}"]
TangentGraph == [name |-> TangentName, equation_latex |-> "y = \\tan(x)"]
NoGraph == [name |-> "", equation_latex |-> ""]

\* parameter maps of the tangent: each control alone, and the defaults
TangentMaps ==
    {EmptyMap} \cup
    {[n \in {c} |->
        CASE c = "amplitude" -> 3000
          [] c = "frequency" -> 2000
          [] c = "phase" -> 200
          [] c = "xScale" -> 2000
          [] c = "yScale" -> 3000] :
     c \in {"amplitude", "frequency", "phase", "xScale", "yScale"}}

\* GraphRenderer calls create2DFunctionGeometry(graph, resolution, controlValues)
\* with resolution = controlValues.resolution || 50
Init2DFunction ==
    /\ builder = "create2DFunctionGeometry"
    /\ \/ \E g \in {GenericGraph, NoLatexGraph, ReciprocalGraph}, cv \in ScaleMaps :
            /\ graph = g
            /\ \/ \E res \in 1..MaxRes : controlValues = WithResolution(cv, res)
               \/ /\ g = ReciprocalGraph
                  /\ controlValues \in {cv, WithResolution(cv, ScenarioResolution)}
       \/ /\ graph = TangentGraph
          /\ controlValues \in TangentMaps
    /\ resolution = OrDefault(controlValues, "resolution", DefaultResolution)
    /\ equation = <<>>
    /\ scope = EmptyMap

\* createCustomGraphGeometry calls createCustom2DCurve(equation, scope); the
\* sweep has CustomResolution steps.  With an arbitrary outcome at every point
\* the same loop is explored over MaxRes steps.
InitCustom2D ==
    /\ builder = "createCustom2DCurve"
    /\ graph = NoGraph
    /\ controlValues = EmptyMap
    /\ \/ /\ equation \in {EqReciprocal, EqTan}
          /\ resolution = CustomResolution
          /\ scope = EmptyMap
       \/ /\ equation \in {EqAny, EqLog}
          /\ resolution = MaxRes
          /\ scope \in {EmptyMap, [n \in {"x"} |-> 7000]}

Init2D ==
    /\ Init2DFunction \/ InitCustom2D
    /\ i = 0
    /\ currentSegment = <<>>
    /\ segments = <<>>
    /\ samples = <<>>
    /\ polyline = <<>>
    /\ pc2d = "sweep"

Idle2D ==
    /\ currentSegment = <<>>
    /\ segments = <<>>
    /\ samples = <<>>
    /\ polyline = <<>>
    /\ pc2d = "idle"

Next2D == Sample2DFunction \/ SampleCustom2D \/ Finish2D

----------------------------------------------------------------------------
(* The classifier: createCustomGraph (customEquationUtils.ts) *)

\* most terms on the right-hand side of a generated text
MaxTerms == 2

\* the identifiers of the model and their spelling
NameChars ==
    [n \in {"x", "y", "z", "Z", "t", "r", "a", "zeta", "sin"} |->
        CASE n = "x" -> <<"x">>
          [] n = "Z" -> <<"Z">>
          [] n = "y" -> <<"y">>
          [] n = "z" -> <<"z">>
          [] n = "t" -> <<"t">>
          [] n = "r" -> <<"r">>
          [] n = "a" -> <<"a">>
          [] n = "zeta" -> <<"z", "e", "t", "a">>
          [] n = "sin" -> <<"s", "i", "n">>]

Letters == {"a", "e", "i", "n", "r", "s", "t", "x", "y", "z", "Z"}
Digits == {"0", "1", "2", "3", "4", "5", "6", "7", "8", "9"}

\* the name a run of letters spells
SymbolName(chars) == CHOOSE n \in DOMAIN NameChars : NameChars[n] = chars

RECURSIVE SymbolsFrom(_, _, _, _)
SymbolsFrom(s, pos, cur, acc) ==
    LET closed == IF cur = <<>> THEN acc ELSE acc \cup {SymbolName(cur)}
    IN  IF pos > Len(s) THEN closed
        ELSE IF s[pos] \in Letters \/ (cur # <<>> /\ s[pos] \in Digits)
        THEN SymbolsFrom(s, pos + 1, Append(cur, s[pos]), acc)
        ELSE SymbolsFrom(s, pos + 1, <<>>, closed)

\* parse(equation).traverse: the names of all SymbolNodes of a well-formed
\* text, the assigned symbol and the called functions included
SymbolNodes(eq) == SymbolsFrom(eq, 1, <<>>, {})

BuiltinNames ==
    {"e", "pi", "PI", "E", "sin", "cos", "tan", "log", "ln", "sqrt", "abs",
     "exp", "pow"}

\* extractVariables: the sorted array without duplicates, as a set
extractVariables(eq) == {n \in SymbolNodes(eq) : n \notin BuiltinNames}

commonParameterVars == {"t", "u", "v", "theta", "phi", "r"}

\* determineGraphType(equation, variables)
determineGraphType(eq, variables) ==
    LET trimmedEquation == ToLowerCase(Trim(eq))
        inputVars == {v \in variables : v \notin commonParameterVars}
    IN  IF StartsWith(trimmedEquation, <<"z">>) /\ Includes(eq, <<"=">>) THEN "3D"
        ELSE IF Cardinality(inputVars) >= 2 THEN "3D"
        ELSE "2D"

generateVariableControls(variables) ==
    {[name |-> v, defaultValue |-> DefaultValue(v)] : v \in variables}

NullGraph == [equation |-> <<>>, type |-> "null", variables |-> {}]

\* createCustomGraph(equation)
createCustomGraph(eq) ==
    LET variables == extractVariables(eq)
    IN  [equation |-> eq,
         type |-> determineGraphType(eq, variables),
         variables |-> generateVariableControls(variables)]

\* the texts of the model: [lhs =] term + term ...
Terms ==
    {<<"x">>, <<"y">>, <<"t">>, <<"z">>, <<"x", "^", "2">>, <<"y", "^", "2">>,
     <<"s", "i", "n", "(", "x", ")">>}

RECURSIVE Sums(_)
Sums(n) ==
    IF n = 1 THEN Terms
    ELSE Sums(n - 1) \cup
         {e \o <<" ", "+", " ">> \o t : e \in Sums(n - 1), t \in Terms}

LeftSides ==
    {<<>>} \cup
    {l \o <<" ", "=", " ">> :
        l \in {<<"z">>, <<"Z">>, <<"y">>, <<"r">>, <<"z", "e", "t", "a">>}}

EquationTexts ==
    {lead \o l \o e : lead \in {<<>>, <<" ">>}, l \in LeftSides, e \in Sums(MaxTerms)}

EqParaboloid == <<"z", " ", "=", " ", "x", "^", "2", " ", "+", " ", "y", "^", "2">>
EqSine == <<"y", " ", "=", " ", "s", "i", "n", "(", "x", ")">>
EqZeta == <<"z", "e", "t", "a", " ", "=", " ", "t">>

\* the user submits the text of the custom equation field
CreateCustomGraph ==
    /\ builder = "createCustomGraph"
    /\ customGraph = NullGraph
    /\ customGraph' = createCustomGraph(equation)
    /\ UNCHANGED <<inputs, varsMore, i, vars2d, varsScope, vars3d>>

InitClassify ==
    /\ builder = "createCustomGraph"
    /\ equation \in EquationTexts
    /\ graph = NoGraph
    /\ controlValues = EmptyMap
    /\ scope = EmptyMap
    /\ resolution = 0
    /\ i = 0
    /\ customGraph = NullGraph

IdleClassify == customGraph = NullGraph

----------------------------------------------------------------------------
(* Scope construction: the map handed to evaluate() for one sample point *)

SampleCoordinates == {-1000, 2000}

\* parameter maps over names that may collide with a coordinate
CollidingMaps ==
    UNION {[D -> {0, 5000}] : D \in SUBSET {"x", "y", "theta", "a"}}

\* the variable lists a custom graph can carry
CustomVariableSets ==
    {generateVariableControls(V) : V \in {{}, {"x"}, {"x", "y", "a"}}}

SurfaceScopeStep ==
    /\ builder = "calculateSurfaceZ"
    /\ \E x \in SampleCoordinates, y \in SampleCoordinates :
         /\ sampleAt' = [n \in {"x", "y"} |-> IF n = "x" THEN x ELSE y]
         /\ evalScope' = GenericSurfaceScope(x, y, controlValues)
    /\ evalPath' = builder
    /\ UNCHANGED <<inputs, varsMore, i, vars2d, varsClassify, vars3d>>

Function2DScopeStep ==
    /\ builder = "calculate2DFunction"
    /\ \E x \in SampleCoordinates :
         /\ sampleAt' = [n \in {"x"} |-> x]
         /\ evalScope' = Generic2DScope(x, controlValues)
    /\ evalPath' = builder
    /\ UNCHANGED <<inputs, varsMore, i, vars2d, varsClassify, vars3d>>

PolarScopeStep ==
    /\ builder = "calculatePolar"
    /\ \E theta \in SampleCoordinates :
         /\ sampleAt' = [n \in {"theta"} |-> theta]
         /\ evalScope' = GenericPolarScope(theta, controlValues)
    /\ evalPath' = builder
    /\ UNCHANGED <<inputs, varsMore, i, vars2d, varsClassify, vars3d>>

Custom2DScopeStep ==
    /\ builder = "createCustom2DCurve"
    /\ \E x \in SampleCoordinates :
         /\ sampleAt' = [n \in {"x"} |-> x]
         /\ evalScope' = Custom2DScope(scope, x)
    /\ evalPath' = builder
    /\ UNCHANGED <<inputs, varsMore, i, vars2d, varsClassify, vars3d>>

Custom3DScopeStep ==
    /\ builder = "createCustom3DSurface"
    /\ \E x \in SampleCoordinates, y \in SampleCoordinates :
         /\ sampleAt' = [n \in {"x", "y"} |-> IF n = "x" THEN x ELSE y]
         /\ evalScope' = Custom3DScope(scope, x, y)
    /\ evalPath' = builder
    /\ UNCHANGED <<inputs, varsMore, i, vars2d, varsClassify, vars3d>>

InitScope ==
    /\ controlValues \in CollidingMaps
    /\ \/ /\ builder \in {"calculateSurfaceZ", "calculate2DFunction", "calculatePolar"}
          /\ graph = GenericGraph
          /\ equation = <<>>
          /\ scope = EmptyMap
       \/ /\ builder \in {"createCustom2DCurve", "createCustom3DSurface"}
          /\ graph = NoGraph
          /\ equation = EqAny
          /\ \E vs \in CustomVariableSets : scope = CustomScope(vs, controlValues)
    /\ resolution = 0
    /\ i = 0
    /\ evalScope = EmptyMap
    /\ evalPath = "none"
    /\ sampleAt = EmptyMap

IdleScope ==
    /\ evalScope = EmptyMap
    /\ evalPath = "none"
    /\ sampleAt = EmptyMap

----------------------------------------------------------------------------
(* 3D grids: createSurfaceGeometry, createCustom3DSurface and the hyperboloids *)

\* largest grid resolution explored
MaxGridRes == 2

HelicoidName == "Helicoid"
HelicoidGraph == [name |-> HelicoidName, equation_latex |-> "x = u\\cos(v)"]
GenericSurfaceGraph == [name |-> "Generic Surface", equation_latex |-> "z = f(x, y)"]
NoLatexSurfaceGraph == [name |-> "Generic Surface", equation_latex |-> "undefined"]

\* a text with the log signature that names y
EqLogXY == <<"l", "o", "g", "(", "x", ")", "+", "y">>

\* Math.atan of a ratio t in [0, 1]
AtanUnit(t) == (t * (785 + (273 * (1000 - t)) \div 1000)) \div 1000

\* Math.atan2(y, x), to a few thousandths
Atan2(y, x) ==
    IF x = 0 /\ y = 0 THEN 0
    ELSE LET ax == Abs(x)
             ay == Abs(y)
             first == IF ay <= ax THEN AtanUnit((1000 * ay) \div ax)
                      ELSE 1571 - AtanUnit((1000 * ax) \div ay)
             half == IF x >= 0 THEN first ELSE 3142 - first
         IN  IF y >= 0 THEN half ELSE -half

\* what evaluate() can do at a grid point whose finite value would be val
GridEvalOutcomes(val) == {Num(val), NaN, Infinity, Thrown}

\* floor of the square root of n, found between lo and hi
RECURSIVE SqrtBetween(_, _, _)
SqrtBetween(n, lo, hi) ==
    IF lo >= hi THEN lo
    ELSE LET mid == (lo + hi + 1) \div 2
         IN  IF mid * mid <= n THEN SqrtBetween(n, mid, hi)
             ELSE SqrtBetween(n, lo, mid - 1)

\* Math.sqrt of a count of millionths, in thousandths
SqrtMicro(n) == SqrtBetween(n, 0, 40000)

\* Math.sqrt of a count of thousandths, in thousandths
Sqrt(n) == SqrtMicro(n * 1000)

\* (p * p) / (q * q) for thousandths p, q, in thousandths
SquareRatio(p, q) == (p * p) \div ((q * q) \div 1000)

\* the shapes calculateSurfaceZ solves by name (of its named branches the
\* model leaves out Sine Wave Surface, Gaussian Surface, Monkey Saddle and
\* Wave Function, which are finite everywhere)
NamedSurfaces ==
    {HelicoidName, "Ellipsoid", "Cone", "Hyperboloid of One Sheet",
     "Hyperboloid of Two Sheets", "Cylinder", "Torus (Doughnut)", "Sphere",
     "Linear Function (Plane)"}

\* term >= 0 ? <root> : 0
ZeroOutside(term, inside) == IF term >= 0 THEN Num(inside) ELSE Num(0)

\* the named branches of calculateSurfaceZ
NamedSurfaceZ(g, x, y, cv) ==
    CASE g.name = HelicoidName ->
           LET c == OrDefault(cv, "c", 1000)
               uRange == OrDefault(cv, "uRange", 3000)
               vRange == OrDefault(cv, "vRange", 6283)
               v == (Atan2(y, x) * vRange) \div 6283
           \* r <= uRange with r = Math.sqrt(x*x + y*y)
           IN  IF uRange >= 0 /\ x * x + y * y <= uRange * uRange
               THEN Num(Mul(c, v))
               ELSE NaN
      [] g.name = "Ellipsoid" ->
           LET a == OrDefault(cv, "a", 3000)
               b == OrDefault(cv, "b", 2000)
               c == OrDefault(cv, "c", 1500)
               term == 1000 - SquareRatio(x, a) - SquareRatio(y, b)
           IN  ZeroOutside(term, Mul(c, Sqrt(term)))
      [] g.name = "Cone" ->
           LET a == OrDefault(cv, "a", 2000)
               b == OrDefault(cv, "a", 2000)
               c == OrDefault(cv, "c", 2000)
           IN  Num(Mul(c, Sqrt(SquareRatio(x, a) + SquareRatio(y, b))))
      [] g.name = "Hyperboloid of One Sheet" ->
           LET a == OrDefault(cv, "a", 2000)
               b == OrDefault(cv, "a", 2000)
               c == OrDefault(cv, "c", 2000)
               term == SquareRatio(x, a) + SquareRatio(y, b) - 1000
           IN  ZeroOutside(term, Mul(c, Sqrt(term)))
      [] g.name = "Hyperboloid of Two Sheets" ->
           LET a == OrDefault(cv, "a", 2000)
               b == OrDefault(cv, "a", 2000)
               c == OrDefault(cv, "c", 2000)
           IN  Num(Mul(c, Sqrt(1000 + SquareRatio(x, a) + SquareRatio(y, b))))
      [] g.name = "Cylinder" ->
           LET r == OrDefault(cv, "radius", 2000)
           \* dist <= r with dist = Math.sqrt(x*x + y*y)
           IN  IF r >= 0 /\ x * x + y * y <= r * r THEN Num(0) ELSE NaN
      [] g.name = "Torus (Doughnut)" ->
           LET R == OrDefault(cv, "R", 3000)
               r == OrDefault(cv, "r", 1500)
               rho == SqrtMicro(x * x + y * y)
               term == 1000 - SquareRatio(rho - R, r)
           IN  ZeroOutside(term, Mul(r, Sqrt(term)))
      [] g.name = "Sphere" ->
           LET r == OrDefault(cv, "radius", 3000)
               term == r * r - x * x - y * y
           IN  ZeroOutside(term, SqrtMicro(term))
      [] g.name = "Linear Function (Plane)" ->
           LET a == OrDefault(cv, "a", 1000)
               b == OrDefault(cv, "b", 1000)
               c == OrDefault(cv, "c", 1000)
               d == OrDefault(cv, "d", 0)
           IN  Num(((d - Mul(a, x) - Mul(b, y)) * 1000) \div c)

\* calculateSurfaceZ; ev: the outcome of evaluate() on the generic branch
calculateSurfaceZ(g, x, y, cv, ev) ==
    IF g.name \in NamedSurfaces THEN NamedSurfaceZ(g, x, y, cv)
    ELSE IF g.equation_latex = "undefined" THEN Thrown
    ELSE IF ev.k = "throw" THEN Num(0)
    ELSE IF isNaN(ev) \/ ~isFinite(ev) THEN Num(0)
    ELSE Num(Max(-10000, Min(10000, ev.v)))

\* did the height computation of calculateSurfaceZ fault at this point
SurfaceFaulted(g, x, y, cv, ev) ==
    IF g.name \in NamedSurfaces THEN isNaN(calculateSurfaceZ(g, x, y, cv, ev))
    ELSE g.equation_latex = "undefined" \/ ev.k # "num"

SurfaceEvalOutcomes(g, val) ==
    IF g.name \in NamedSurfaces \/ g.equation_latex = "undefined"
    THEN {NaN}  \* evaluate() is not reached
    ELSE GridEvalOutcomes(val)

\* one vertex of the PlaneGeometry(10, 10, resolution, resolution) grid
\* (i counts vertices; the source steps i by 3 through the position array)
SurfaceVertexStep ==
    /\ pc3d = "vertices"
    /\ builder = "createSurfaceGeometry"
    /\ i < (resolution + 1) * (resolution + 1)
    /\ LET x == -5000 + (10000 * (i % (resolution + 1))) \div resolution
           y == 5000 - (10000 * (i \div (resolution + 1))) \div resolution
       IN  \E ev \in SurfaceEvalOutcomes(graph, Mul(x, y)) :
             LET r == calculateSurfaceZ(graph, x, y, controlValues, ev)
                 \* try { z = calculateSurfaceZ(...) } catch { z = 0 }
                 z == IF r.k = "throw" THEN Num(0) ELSE r
             IN  /\ vertices' = Append(vertices, [x |-> Num(x), y |-> Num(y), z |-> z])
                 /\ cellFault' = Append(cellFault,
                                        SurfaceFaulted(graph, x, y, controlValues, ev))
    /\ i' = i + 1
    /\ pc3d' = IF i' = (resolution + 1) * (resolution + 1) THEN "done" ELSE "vertices"
    /\ UNCHANGED <<inputs, varsMore, j, sign, indices, vertexIndex, vars2d, varsClassify,
                   varsScope>>

\* the loop indices after cell (a, b) of a (resolution + 1) x (resolution + 1) grid
NextI(a, b) == IF b < resolution THEN a ELSE a + 1
NextJ(a, b) == IF b < resolution THEN b + 1 ELSE 0

\* a text without free parameters: the saddle of the scenario
EqSaddle == <<"x", "^", "2", "-", "y", "^", "2">>

\* const resolution = 50 in createCustom3DSurface
CustomGridResolution == 50

\* evaluate(equation, evalScope) in createCustom3DSurface: the set of outcomes
EvaluateSurface(eq, sc) ==
    IF eq = EqSaddle
    THEN {Num(Mul(sc["x"], sc["x"]) - Mul(sc["y"], sc["y"]))}
    ELSE GridEvalOutcomes(Mul(sc["x"], sc["y"]))

\* a push that leaves out the cells whose height is 0
PushUnlessZero(verts, x, z, y) ==
    IF z = 0 THEN verts ELSE Append(verts, [x |-> Num(x), y |-> Num(z), z |-> Num(y)])

\* vertices.push(x, clampedZ, y): the height is the second component
PushVertex(verts, x, z, y) == Append(verts, [x |-> Num(x), y |-> Num(z), z |-> Num(y)])

\* one grid point of the vertex loop of createCustom3DSurface
CustomVertexStep ==
    /\ pc3d = "vertices"
    /\ builder = "createCustom3DSurface"
    /\ i <= resolution
    /\ LET x == XAt(i, resolution)
           y == XAt(j, resolution)
       IN  IF ~validateDomain(equation, x, TRUE, y)
           THEN /\ vertices' = PushVertex(vertices, x, Max(-50000, Min(50000, 0)), y)
                /\ cellFault' = Append(cellFault, TRUE)
           ELSE \E ev \in EvaluateSurface(equation, Custom3DScope(scope, x, y)) :
                  \* a thrown error reaches the catch: vertices.push(x, 0, y)
                  LET z == IF ev.k = "num" THEN ev.v ELSE 0
                      clampedZ == Max(-50000, Min(50000, z))
                  IN  /\ vertices' = PushVertex(vertices, x, clampedZ, y)
                      /\ cellFault' = Append(cellFault, ev.k # "num")
    /\ i' = IF i = resolution /\ j = resolution THEN 0 ELSE NextI(i, j)
    /\ j' = NextJ(i, j)
    /\ pc3d' = IF i = resolution /\ j = resolution THEN "indices" ELSE "vertices"
    /\ UNCHANGED <<inputs, varsMore, sign, indices, vertexIndex, vars2d, varsClassify, varsScope>>

\* the two triangles of quad (a, b) of createCustom3DSurface
CustomQuad(a, b, res) ==
    LET qa == a * (res + 1) + b
        qb == qa + res + 1
        qc == qa + 1
        qd == qb + 1
    IN  <<qa, qb, qc, qb, qd, qc>>

\* the index buffer after the nested loops over i, j < resolution: quad
\* (a, b) fills places 6 * (a * res + b) + 1 .. 6 * (a * res + b) + 6
CustomIndices(res) ==
    [n \in 1..(6 * res * res) |->
        LET q == (n - 1) \div 6
        IN  CustomQuad(q \div res, q % res, res)[((n - 1) % 6) + 1]]

\* the index loop of createCustom3DSurface
CustomIndexLoop ==
    /\ pc3d = "indices"
    /\ builder = "createCustom3DSurface"
    /\ indices' = CustomIndices(resolution)
    /\ pc3d' = "done"
    /\ UNCHANGED <<inputs, varsMore, i, j, sign, vertices, vertexIndex, cellFault, vars2d,
                   varsClassify, varsScope>>

\* indices.push(current, next, nextRow); indices.push(next, nextRowNext, nextRow)
HyperboloidQuad(current, res) ==
    <<current, current + 1, current + (res + 1),
      current + 1, current + (res + 1) + 1, current + (res + 1)>>

\* rSquared = a * a * (z * z / (c * c) - 1)
RSquaredTwoSheets(a, c, z) == Mul(Mul(a, a), (z * z) \div ((c * c) \div 1000) - 1000)

\* rSquared = a * a * (1 + (z * z) / (c * c))
RSquaredOneSheet(a, c, z) == Mul(Mul(a, a), 1000 + (z * z) \div ((c * c) \div 1000))

\* is the vertex of this grid row pushed by createHyperboloidTwoSheetsGeometry
RowPushed(rSquared) == rSquared >= 0

\* one grid point of createHyperboloidTwoSheetsGeometry; a vertex is kept as
\* (rSquared, j, z): x = sqrt(rSquared) cos(2 pi j / resolution), y likewise
TwoSheetsStep ==
    /\ pc3d = "vertices"
    /\ builder = "createHyperboloidTwoSheetsGeometry"
    /\ LET a == OrDefault(controlValues, "a", 2000)
           c == OrDefault(controlValues, "c", 2000)
           zMin == OrDefault(controlValues, "zMin", 1200)
           zMax == OrDefault(controlValues, "zMax", 4000)
           z == sign * (zMin + ((zMax - zMin) * i) \div resolution)
           rSquared == RSquaredTwoSheets(a, c, z)
       IN  IF RowPushed(rSquared)
           THEN /\ vertices' = Append(vertices, [r2 |-> rSquared, j |-> j, z |-> Num(z)])
                /\ cellFault' = Append(cellFault, FALSE)
                /\ indices' = IF i < resolution /\ j < resolution
                              THEN indices \o HyperboloidQuad(vertexIndex, resolution)
                              ELSE indices
                /\ vertexIndex' = vertexIndex + 1
           ELSE UNCHANGED <<vertices, cellFault, indices, vertexIndex>>
    /\ LET last == i = resolution /\ j = resolution
       IN  /\ i' = IF last THEN 0 ELSE NextI(i, j)
           /\ j' = NextJ(i, j)
           /\ sign' = IF last THEN -1 ELSE sign
           /\ pc3d' = IF last /\ sign = -1 THEN "done" ELSE "vertices"
    /\ UNCHANGED <<inputs, varsMore, vars2d, varsClassify, varsScope>>

\* one grid point of createHyperboloidOneSheetGeometry
OneSheetStep ==
    /\ pc3d = "vertices"
    /\ builder = "createHyperboloidOneSheetGeometry"
    /\ LET a == OrDefault(controlValues, "a", 2000)
           c == OrDefault(controlValues, "c", 2000)
           zRange == OrDefault(controlValues, "zRange", 4000)
           z == -zRange + (2 * zRange * i) \div resolution
           rSquared == RSquaredOneSheet(a, c, z)
       IN  /\ vertices' = Append(vertices, [r2 |-> rSquared, j |-> j, z |-> Num(z)])
           /\ cellFault' = Append(cellFault, FALSE)
           /\ indices' = IF i < resolution /\ j < resolution
                         THEN indices \o HyperboloidQuad(vertexIndex, resolution)
                         ELSE indices
           /\ vertexIndex' = vertexIndex + 1
    /\ i' = NextI(i, j)
    /\ j' = NextJ(i, j)
    /\ pc3d' = IF i = resolution /\ j = resolution THEN "done" ELSE "vertices"
    /\ UNCHANGED <<inputs, varsMore, sign, vars2d, varsClassify, varsScope>>

\* the parameter maps of the hyperboloid of two sheets
TwoSheetsMaps ==
    {EmptyMap,
     [n \in {"zMin", "zMax"} |-> IF n = "zMin" THEN 4000 ELSE 1200],
     [n \in {"zMin", "zMax"} |-> IF n = "zMin" THEN -3000 ELSE 3000],
     [n \in {"c"} |-> 1000]}

\* a catalog entry solved by name
NamedSurfaceGraph(n) == [name |-> n, equation_latex |-> "implicit"]

\* the parameter maps of the catalog surfaces
SurfaceMaps ==
    {EmptyMap,
     [n \in {"uRange"} |-> 8000],
     [n \in {"radius", "R"} |-> IF n = "R" THEN 5000 ELSE 6000],
     [n \in {"a", "b", "c"} |-> IF n = "c" THEN -1000 ELSE 6000]}

Init3D ==
    /\ \/ /\ builder = "createSurfaceGeometry"
          \* GraphRenderer hands the other named shapes to dedicated builders
          /\ graph \in {HelicoidGraph, GenericSurfaceGraph, NoLatexSurfaceGraph,
                        NamedSurfaceGraph("Linear Function (Plane)")}
          /\ \E cv \in SurfaceMaps, res \in 1..MaxGridRes :
               controlValues = WithResolution(cv, res)
          /\ resolution = OrDefault(controlValues, "resolution", DefaultResolution)
          /\ equation = <<>>
          /\ scope = EmptyMap
       \* createCustom3DSurface sweeps a 50 x 50 grid; with an arbitrary outcome
       \* at every grid point the same loops are explored over MaxGridRes steps
       \/ /\ builder = "createCustom3DSurface"
          /\ graph = NoGraph
          /\ controlValues = EmptyMap
          /\ \/ /\ equation \in {EqAny, EqLogXY}
                /\ resolution = MaxGridRes
                /\ scope = EmptyMap
             \* the saddle has one outcome per grid point: the grid of the source
             \/ /\ equation = EqSaddle
                /\ resolution = CustomGridResolution
                /\ scope = CustomScope(generateVariableControls({"x", "y"}), EmptyMap)
       \/ /\ builder = "createHyperboloidTwoSheetsGeometry"
          /\ graph = NoGraph
          /\ \E cv \in TwoSheetsMaps, res \in 1..MaxGridRes :
               controlValues = WithResolution(cv, res)
          /\ resolution = OrDefault(controlValues, "resolution", 30)
          /\ equation = <<>>
          /\ scope = EmptyMap
       \/ /\ builder = "createHyperboloidOneSheetGeometry"
          /\ graph = NoGraph
          /\ \E cv \in {EmptyMap, [n \in {"zRange"} |-> 2000]}, res \in 1..MaxGridRes :
               controlValues = WithResolution(cv, res)
          /\ resolution = OrDefault(controlValues, "resolution", 40)
          /\ equation = <<>>
          /\ scope = EmptyMap
    /\ i = 0
    /\ j = 0
    /\ sign = 1
    /\ vertices = <<>>
    /\ indices = <<>>
    /\ vertexIndex = 0
    /\ cellFault = <<>>
    /\ pc3d = "vertices"

Idle3D ==
    /\ j = 0
    /\ sign = 1
    /\ vertices = <<>>
    /\ indices = <<>>
    /\ vertexIndex = 0
    /\ cellFault = <<>>
    /\ pc3d = "idle"

----------------------------------------------------------------------------
(* The normalizer: convertLatexToMathjs *)

\* longest input of the normalizer, in tokens
MaxTokens == 3

LowerAZ ==
    {"a", "b", "c", "d", "e", "f", "g", "h", "i", "j", "k", "l", "m", "n", "o",
     "p", "q", "r", "s", "t", "u", "v", "w", "x", "y", "z"}
UpperAZ ==
    {"A", "B", "C", "D", "E", "F", "G", "H", "I", "J", "K", "L", "M", "N", "O",
     "P", "Q", "R", "S", "T", "U", "V", "W", "X", "Y", "Z"}
\* [a-z] under the i flag
AnyCaseAZ == LowerAZ \cup UpperAZ

\* String.prototype.replace(/pat/g, rep) for a pattern without operators
RECURSIVE ReplaceAll(_, _, _)
ReplaceAll(s, pat, rep) ==
    IF Len(s) < Len(pat) THEN s
    ELSE IF SubSeq(s, 1, Len(pat)) = pat
    THEN rep \o ReplaceAll(SubSeq(s, Len(pat) + 1, Len(s)), pat, rep)
    ELSE <<s[1]>> \o ReplaceAll(Tail(s), pat, rep)

\* position of the first c in s at or after from, Len(s) + 1 if there is none
RECURSIVE IndexOf(_, _, _)
IndexOf(s, c, from) ==
    IF from > Len(s) THEN Len(s) + 1
    ELSE IF s[from] = c THEN from
    ELSE IndexOf(s, c, from + 1)

\* expr.split('=')[1].trim()
RightHandSide(s) ==
    LET first == IndexOf(s, "=", 1)
        second == IndexOf(s, "=", first + 1)
    IN  Trim(SubSeq(s, first + 1, second - 1))

\* the replacements of a macro by its mathjs spelling, in source order
MacroTable ==
    << <<(<<"\\">> \o <<"s", "i", "n">>), <<"s", "i", "n">> >>,
       <<(<<"\\">> \o <<"c", "o", "s">>), <<"c", "o", "s">> >>,
       <<(<<"\\">> \o <<"t", "a", "n">>), <<"t", "a", "n">> >>,
       <<(<<"\\">> \o <<"l", "n">>), <<"l", "o", "g">> >>,
       <<(<<"\\">> \o <<"l", "o", "g">>), <<"l", "o", "g">> >>,
       <<(<<"\\">> \o <<"e", "x", "p">>), <<"e", "x", "p">> >>,
       <<(<<"\\">> \o <<"p", "i">>), <<"p", "i">> >>,
       <<(<<"\\">> \o <<"t", "h", "e", "t", "a">>), <<"t", "h", "e", "t", "a">> >>,
       <<(<<"\\">> \o <<"d", "e", "l", "t", "a">>), <<"d", "e", "l", "t", "a">> >>,
       <<(<<"\\">> \o <<"p", "h", "i">>), <<"p", "h", "i">> >>,
       <<(<<"\\">> \o <<"o", "m", "e", "g", "a">>), <<"o", "m", "e", "g", "a">> >>,
       <<(<<"\\">> \o <<"g", "a", "m", "m", "a">>), <<"g", "a", "m", "m", "a">> >>,
       <<(<<"\\">> \o <<"e">>), <<"e">> >>,
       <<(<<"\\">> \o <<"p", "r", "o", "p", "t", "o">>), <<"*">> >>,
       <<(<<"\\">> \o <<"a", "p", "p", "r", "o", "x">>), <<"=">> >> >>

RECURSIVE ApplyMacros(_, _)
ApplyMacros(s, n) ==
    IF n > Len(MacroTable) THEN s
    ELSE ApplyMacros(ReplaceAll(s, MacroTable[n][1], MacroTable[n][2]), n + 1)

\* .replace(/\{([^}]+)\}/g, '($1)')
RECURSIVE Braces(_)
Braces(s) ==
    IF s = <<>> THEN s
    ELSE LET close == IndexOf(s, "}", 2)
         IN  IF s[1] = "{" /\ close <= Len(s) /\ close > 2
             THEN <<"(">> \o SubSeq(s, 2, close - 1) \o <<")">>
                  \o Braces(SubSeq(s, close + 1, Len(s)))
             ELSE <<s[1]>> \o Braces(Tail(s))

\* the first chain of replacements, for a text without \frac, \sqrt, a power
\* written with braces or a power directly after \sin, \cos, \tan: the
\* patterns of those four replacements match nowhere in such a text
MacroExpand(s) == Braces(ApplyMacros(s, 1))

\* the names listed in the callback of the variable-variable replacement
ProtectedNames ==
    {<<"s", "i", "n">>, <<"c", "o", "s">>, <<"t", "a", "n">>, <<"l", "o", "g">>,
     <<"e", "x", "p">>, <<"p", "i">>}

\* (_, p1, p2) => ['sin', ...].includes(p1 + p2) ? p1 + p2 : `${p1}*${p2}`
PairCallback(p1, p2) ==
    IF <<p1, p2>> \in ProtectedNames THEN <<p1, p2>> ELSE <<p1, "*", p2>>

\* .replace(/([a-z])([a-z])/g, callback): matches do not overlap
RECURSIVE SplitPairs(_)
SplitPairs(s) ==
    IF Len(s) < 2 THEN s
    ELSE IF s[1] \in LowerAZ /\ s[2] \in LowerAZ
    THEN PairCallback(s[1], s[2]) \o SplitPairs(SubSeq(s, 3, Len(s)))
    ELSE <<s[1]>> \o SplitPairs(Tail(s))

\* .replace(/(L)(R)/g, '$1*$2') where no character is both in L and in R, or
\* the left group is a run (\d+): a '*' goes between every adjacent pair
RECURSIVE StarBetween(_, _, _)
StarBetween(s, left, right) ==
    IF Len(s) < 2 THEN s
    ELSE IF s[1] \in left /\ s[2] \in right
    THEN <<s[1], "*">> \o StarBetween(Tail(s), left, right)
    ELSE <<s[1]>> \o StarBetween(Tail(s), left, right)

\* does s[1..p] end with ^digits or ^( ... )
RECURSIVE EndsPowerTerm(_, _, _)
EndsPowerTerm(s, p, closed) ==
    IF p < 1 THEN FALSE
    ELSE IF closed
    THEN IF s[p] = "(" THEN p > 1 /\ s[p - 1] = "^"
         ELSE s[p] # ")" /\ EndsPowerTerm(s, p - 1, TRUE)
    ELSE IF s[p] \in Digits
    THEN (p > 1 /\ s[p - 1] = "^") \/ EndsPowerTerm(s, p - 1, FALSE)
    ELSE FALSE

\* .replace(/(\^(?:\d+|\([^)]+\)))([a-z])/gi, '$1*$2')
RECURSIVE StarAfterPower(_, _)
StarAfterPower(s, p) ==
    IF p >= Len(s) THEN s
    ELSE IF s[p + 1] \in AnyCaseAZ
            /\ \/ EndsPowerTerm(s, p, FALSE)
               \/ s[p] = ")" /\ p > 2 /\ s[p - 1] # "(" /\ EndsPowerTerm(s, p - 1, TRUE)
    THEN StarAfterPower(SubSeq(s, 1, p) \o <<"*">> \o SubSeq(s, p + 1, Len(s)), p + 2)
    ELSE StarAfterPower(s, p + 1)

\* the second chain of replacements
ImplicitMultiplication(s) ==
    LET pairs == SplitPairs(s)
        coefficient == StarBetween(pairs, Digits, AnyCaseAZ)
        trailing == StarBetween(coefficient, AnyCaseAZ, Digits)
        closing == StarBetween(trailing, {")"}, AnyCaseAZ \cup {"("})
        opening == StarBetween(closing, AnyCaseAZ \cup Digits, {"("})
    IN  StarAfterPower(opening, 1)

convertLatexToMathjs(s) ==
    ImplicitMultiplication(
        MacroExpand(IF Includes(s, <<"=">>) THEN RightHandSide(s) ELSE s))

\* the pieces the input texts are made of
NormTokens ==
    {<<"\\">> \o <<"s", "i", "n">>, <<"s", "i", "n">>, <<"c", "o", "s">>,
     <<"t", "a", "n">>, <<"l", "o", "g">>, <<"\\">> \o <<"l", "n">>,
     <<"e", "x", "p">>, <<"p", "i">>, <<"x">>, <<"y">>, <<"2">>, <<"(">>,
     <<")">>, <<"=">>}

RECURSIVE TextsOf(_)
TextsOf(n) ==
    IF n = 0 THEN {<<>>}
    ELSE LET shorter == TextsOf(n - 1)
         IN  shorter \cup {t \o k : t \in shorter, k \in NormTokens}

\* one call of convertLatexToMathjs
ConvertLatex ==
    /\ pcNorm = "convert"
    /\ expr' = convertLatexToMathjs(latex)
    /\ pcNorm' = "done"
    /\ UNCHANGED <<varsCore, latex, varsDomain, varsCalc, varsRender, varsUI>>

InitNorm ==
    /\ latex \in TextsOf(MaxTokens) \ {<<>>}
    /\ expr = <<>>
    /\ pcNorm = "convert"

IdleNorm ==
    /\ latex = <<>>
    /\ expr = <<>>
    /\ pcNorm = "idle"

\* the texts handed to validateDomain
DomainTexts ==
    {EqLog, EqLogXY, EqAny, EqReciprocal,
     <<"l", "n", "(", "x", ")">>,
     <<"L", "O", "G", "(", "x", ")">>,
     <<"s", "q", "r", "t", "(", "x", ")">>,
     <<"t", "a", "n", "(", "x", ")">>,
     <<"l", "o", "g", "(", "x", ")", "+", "s", "q", "r", "t", "(", "x", ")">>}

\* the coordinates handed to validateDomain, in thousandths
DomainCoordinates == {-1000, 0, 1, 1000}

\* one call of validateDomain
ValidateDomainCall ==
    /\ domainCheck = "pending"
    /\ domainCheck' = IF validateDomain(domainArgs.equation, domainArgs.x,
                                        domainArgs.hasY, domainArgs.y)
                      THEN "valid" ELSE "invalid"
    /\ UNCHANGED <<varsCore, varsNorm, domainArgs, varsCalc, varsRender, varsUI>>

InitDomain ==
    /\ domainArgs \in
         [equation : DomainTexts, x : DomainCoordinates, hasY : BOOLEAN,
          y : DomainCoordinates]
    \* a call without y carries no y
    /\ ~domainArgs.hasY => domainArgs.y = 0
    /\ domainCheck = "pending"

IdleDomain ==
    /\ domainArgs = [equation |-> <<>>, x |-> 0, hasY |-> FALSE, y |-> 0]
    /\ domainCheck = "idle"

----------------------------------------------------------------------------
(* The point calculators: named branches and the generic path *)

\* most pieces graph.equation_latex.split(',') has in the model
MaxEquations == 3

\* the names calculateSurfaceZ tests before its generic branch
SurfaceNames ==
    NamedSurfaces \cup {"Sine Wave Surface", "Gaussian (Bell Curve) Surface",
                        "Monkey Saddle", "Wave Function (Quantum Mechanics)"}

\* the names calculate2DFunction tests before its generic branch
Function2DNames ==
    {"Square Root Function", "Absolute Value Function", ReciprocalName,
     "Tangent Function", "Logarithmic Function", "Sine and Cosine Waves",
     "Position vs. Time (Kinematics)", "Velocity vs. Time (Kinematics)",
     "Acceleration vs. Time (Kinematics)", "Force vs. Extension (Hooke's Law)",
     "Pressure vs. Volume (Boyle's Law)", "Volume vs. Temperature (Charles's Law)",
     "Pressure vs. Temperature (Gay-Lussac's Law)",
     "I-V Characteristic of a Resistor", "I-V Characteristic of a Diode",
     "Blackbody Radiation Spectrum", "Photoelectric Effect",
     "Binding Energy per Nucleon", "Simple Harmonic Motion",
     "Damped Oscillations", "Exponential Growth/Decay", "Witch of Agnesi"}

\* the names calculateParametric2D tests before its try block
Parametric2DNames == {"Astroid", "Lissajous Curve", "Cycloid", "Circle", "Ellipse"}

\* the names calculatePolar tests before its try block
PolarNames == {"Lemniscate of Bernoulli", "Cardioid", "Rose Curve"}

\* the names calculateParametric3D tests after its try block
Parametric3DNames == {"Trefoil Knot", "Viviani's Curve"}

Calculators ==
    {"calculateSurfaceZ", "calculate2DFunction", "calculateParametric2D",
     "calculatePolar", "calculateParametric3D"}

NamesOf(fn) ==
    CASE fn = "calculateSurfaceZ" -> SurfaceNames
      [] fn = "calculate2DFunction" -> Function2DNames
      [] fn = "calculateParametric2D" -> Parametric2DNames
      [] fn = "calculatePolar" -> PolarNames
      [] fn = "calculateParametric3D" -> Parametric3DNames

\* a name none of the calculators knows
UnknownName == "Folium of Descartes"

\* convertLatexToMathjs followed by evaluate
GenericSteps == <<"convertLatexToMathjs", "evaluate">>

\* a calculator that tests the name first and evaluates equation_latex only
\* when no name matches
NameFirst(name, names, generic) == IF name \in names THEN <<"named">> ELSE generic

\* calculateSurfaceZ, calculate2DFunction, calculatePolar: if (graph.name ===
\* ...) return ...; try { convertLatexToMathjs; evaluate } catch { ... }
NameThenGeneric(name, names) == NameFirst(name, names, GenericSteps)

\* calculateParametric2D: the try block evaluates only when equation_latex
\* has two equations or more, otherwise { x: t, y: Math.sin(t) }
Parametric2DSteps(name, n) ==
    NameFirst(name, Parametric2DNames, IF n >= 2 THEN GenericSteps ELSE <<"default">>)

\* calculateParametric3D: the try block comes first; the names are tested
\* when it has not returned (fewer than three equations, or a thrown error)
Parametric3DSteps(name, n, ev) ==
    LET generic == IF n >= 3 THEN GenericSteps ELSE <<>>
        returned == n >= 3 /\ ev.k # "throw"
    IN  IF returned THEN generic
        ELSE generic \o NameFirst(name, Parametric3DNames, <<"default">>)

\* the returned value of a call the model does not compute
NotComputed == [k |-> "none", v |-> 0]

\* the coordinates handed to calculateSurfaceZ, in thousandths
PlaneCoordinates == {-5000, 0, 2000, 5000}

\* the four sliders of the plane a*x + b*y + c*z = d, a or d at 0
PlaneMaps ==
    {[n \in {"a", "b", "c", "d"} |->
         CASE n = "a" -> a [] n = "b" -> 2000 [] n = "c" -> 1000 [] n = "d" -> d] :
       a \in {0, 2000}, d \in {0, 3000}}

\* one call of a point calculator; ev is what evaluate() does if reached
CalculatePoint ==
    /\ pcCalc = "call"
    /\ \E ev \in EvalOutcomes :
         /\ callTrace' =
             CASE calcFn = "calculateParametric2D" ->
                    Parametric2DSteps(graph.name, equationCount)
               [] calcFn = "calculateParametric3D" ->
                    Parametric3DSteps(graph.name, equationCount, ev)
               [] OTHER -> NameThenGeneric(graph.name, NamesOf(calcFn))
         /\ calcResult' =
             IF calcFn = "calculateSurfaceZ" /\ graph.name \in NamedSurfaces \cup {UnknownName}
             THEN calculateSurfaceZ(graph, calcAt.x, calcAt.y, controlValues, ev)
             ELSE NotComputed
    /\ pcCalc' = "done"
    /\ UNCHANGED <<varsCore, varsNorm, varsDomain, varsRender, calcFn, equationCount, calcAt, varsUI>>

InitCalc ==
    /\ calcFn \in Calculators
    /\ graph \in {[name |-> n, equation_latex |-> "latex"] :
                     n \in NamesOf(calcFn) \cup {UnknownName}}
    /\ IF calcFn \in {"calculateParametric2D", "calculateParametric3D"}
       THEN equationCount \in 1..MaxEquations
       ELSE equationCount = 1
    /\ IF calcFn = "calculateSurfaceZ"
       THEN /\ calcAt \in [x : PlaneCoordinates, y : PlaneCoordinates]
            /\ controlValues \in SurfaceMaps \cup PlaneMaps
       ELSE /\ calcAt = [x |-> 0, y |-> 0]
            /\ controlValues = EmptyMap
    /\ callTrace = <<>>
    /\ calcResult = NotComputed
    /\ pcCalc = "call"
    /\ builder = "none"
    /\ equation = <<>>
    /\ scope = EmptyMap
    /\ resolution = 0
    /\ i = 0

IdleCalc ==
    /\ calcFn = "none"
    /\ equationCount = 0
    /\ callTrace = <<>>
    /\ calcAt = [x |-> 0, y |-> 0]
    /\ calcResult = NotComputed
    /\ pcCalc = "idle"

----------------------------------------------------------------------------
(* The component: GraphRenderer (geometry, material, element) *)

\* graph.type, word by word
Type3DSurface == <<"3D", "Surface">>
Type2DFunction == <<"2D", "Function">>
Type2DParametric == <<"2D", "Parametric">>
Type3DParametricCurve == <<"3D", "Parametric", "Curve">>
Type2DPolar == <<"2D", "Polar">>
TypeMixed == <<"2D", "Function/3D", "Surface">>
TypeOther == <<"Implicit">>

CatalogGraph(n, t) == [name |-> n, type |-> t, equation_latex |-> "latex"]

\* catalog graphs, one or more for every branch of the component
RenderGraphs ==
    {CatalogGraph("Sphere", Type3DSurface),
     CatalogGraph("Hyperboloid of Two Sheets", Type3DSurface),
     CatalogGraph("Hyperboloid of One Sheet", Type3DSurface),
     CatalogGraph("Enneper Surface", Type3DSurface),
     CatalogGraph("Wave Function (Quantum Mechanics)", TypeMixed),
     CatalogGraph(HelicoidName, Type3DSurface),
     CatalogGraph("Tangent Function", Type2DFunction),
     CatalogGraph("Circle", Type2DParametric),
     CatalogGraph(UnknownName, Type2DParametric),
     CatalogGraph("Trefoil Knot", Type3DParametricCurve),
     CatalogGraph("Rose Curve", Type2DPolar),
     CatalogGraph(UnknownName, Type2DPolar),
     CatalogGraph(UnknownName, TypeOther)}

\* parse(equation) of mathjs, as far as the texts of the model need it:
\* parentheses close in order and the text does not end in an operator
RECURSIVE DepthFrom(_, _, _)
DepthFrom(s, pos, depth) ==
    IF depth < 0 THEN depth
    ELSE IF pos > Len(s) THEN depth
    ELSE DepthFrom(s, pos + 1,
            depth + (IF s[pos] = "(" THEN 1 ELSE IF s[pos] = ")" THEN -1 ELSE 0))

Parses(eq) ==
    /\ eq # <<>>
    /\ DepthFrom(eq, 1, 0) = 0
    /\ eq[Len(eq)] \notin {"+", "-", "*", "/", "^", "="}

EqOpenParen == <<"s", "i", "n", "(", "x">>
EqOpenSurface == <<"z", " ", "=", " ", "(", "x">>
EqDangling == <<"x", " ", "+">>

\* createCustomGraph of a text that does not parse: extractVariables
\* catches the error and returns no variables
createUnparsedGraph(eq) ==
    [equation |-> eq,
     type |-> determineGraphType(eq, {}),
     variables |-> generateVariableControls({})]

RenderCustomGraphs ==
    {createCustomGraph(eq) : eq \in {EqSine, EqParaboloid}} \cup
    {createUnparsedGraph(eq) : eq \in {EqOpenParen, EqOpenSurface, EqDangling}}

RenderMaps == {EmptyMap, [n \in {"resolution"} |-> 20]}

\* the kinds of outcome evaluate() and the named formulas have over the
\* samples of one build
SampleOutcomes ==
    {{"value"}, {"nan"}, {"inf"}, {"throw"}, {"value", "throw"},
     {"value", "nan", "inf", "throw"}}

Raised == [k |-> "throw"]
Geometry(b, of, content) ==
    [k |-> "geometry", builder |-> b, of |-> of, content |-> content]
\* new THREE.BufferGeometry()
EmptyBufferGeometry == Geometry("BufferGeometry", <<>>, "empty")
NoGeometry == [k |-> "none"]

\* try { body } catch { handler } with the catch block replaced by a rethrow
Rethrow(body, handler) == body

\* try { body } catch { handler }
Catch(body, handler) == IF body.k = "throw" THEN handler ELSE body

\* one sample of a builder: the calculator call inside try/catch
Sample(o) == Catch([k |-> o], [k |-> "caught"])
Sampled(ev) == {Sample(o).k : o \in ev}

GridBuilders == {"createSurfaceGeometry", "createCustom3DSurface"}
SegmentBuilders == {"create2DFunctionGeometry", "createCustom2DCurve"}

\* what the samples leave in the buffers, every vertex written as (x, 0, y)
\* when a grid builder caught an error at every cell
ContentWritten(b, kinds) ==
    IF b \in GridBuilders THEN "heights"
    ELSE IF b \in SegmentBuilders
    THEN IF "value" \in kinds THEN "points" ELSE "empty"
    ELSE IF b = "createPolarGeometry"
    THEN IF kinds \cap {"value", "inf"} # {} THEN "points" ELSE "empty"
    ELSE IF kinds # {"caught"} THEN "points" ELSE "empty"

\* what the samples leave in the buffers
Content(b, kinds) ==
    IF b \in GridBuilders
    THEN IF kinds = {"caught"} THEN "flat" ELSE "heights"
    ELSE IF b \in SegmentBuilders
    THEN IF "value" \in kinds THEN "points" ELSE "empty"
    ELSE IF b = "createPolarGeometry"
    THEN IF kinds \cap {"value", "inf"} # {} THEN "points" ELSE "empty"
    ELSE IF kinds # {"caught"} THEN "points" ELSE "empty"

\* a builder that samples: an error no catch block took leaves the builder
Build(b, of, ev) ==
    LET kinds == Sampled(ev)
    IN  IF "throw" \in kinds THEN Raised
        ELSE Geometry(b, of, Content(b, kinds))

\* the builders that only compute with numbers
createDefaultGeometry(g) == Geometry("createDefaultGeometry", <<g.name>>, "solid")
createShapeGeometry(b, g) == Geometry(b, <<g.name>>, "solid")

createCustomGraphGeometry(cg, ev) ==
    Catch(Build(IF cg.type = "3D" THEN "createCustom3DSurface"
                ELSE "createCustom2DCurve", cg.equation, ev),
          EmptyBufferGeometry)

DefaultShapeNames ==
    {"Cylinder", "Sphere", "Cone", "Torus (Doughnut)", "Ellipsoid", "Paraboloid",
     "Hyperbolic Paraboloid"}

\* the body of the try block of the geometry useMemo
GeometryBody(g, cg, ev) ==
    IF cg # NullGraph THEN createCustomGraphGeometry(cg, ev)
    ELSE IF g = NoGraph THEN EmptyBufferGeometry
    ELSE IF g.name \in DefaultShapeNames THEN createDefaultGeometry(g)
    ELSE IF g.name = "Hyperboloid of Two Sheets"
    THEN createShapeGeometry("createHyperboloidTwoSheetsGeometry", g)
    ELSE IF g.name = "Hyperboloid of One Sheet"
    THEN createShapeGeometry("createHyperboloidOneSheetGeometry", g)
    ELSE IF g.name = "Enneper Surface"
    THEN createShapeGeometry("createEnneperSurfaceGeometry", g)
    ELSE IF g.name = "Wave Function (Quantum Mechanics)"
    THEN Build("createSurfaceGeometry", <<g.name>>, ev)
    ELSE IF g.type = Type3DSurface THEN Build("createSurfaceGeometry", <<g.name>>, ev)
    ELSE IF g.type = Type2DFunction
    THEN Build("create2DFunctionGeometry", <<g.name>>, ev)
    ELSE IF g.type = Type2DParametric
    THEN Build("createParametricGeometry", <<g.name>>, ev)
    ELSE IF g.type = Type3DParametricCurve
    THEN Build("createParametricCurveGeometry", <<g.name>>, ev)
    ELSE IF g.type = Type2DPolar THEN Build("createPolarGeometry", <<g.name>>, ev)
    ELSE createDefaultGeometry(g)

\* the geometry useMemo
GeometryMemo(g, cg, ev) ==
    Catch(GeometryBody(g, cg, ev),
          IF g # NoGraph THEN createDefaultGeometry(g) ELSE EmptyBufferGeometry)

LineBasicMaterial == [class |-> "LineBasicMaterial", side |-> "FrontSide"]
MeshStandardMaterial(side) == [class |-> "MeshStandardMaterial", side |-> side]
NoMaterial == [class |-> "none", side |-> "none"]

\* the material useMemo
MaterialMemo(g, cg) ==
    IF cg # NullGraph
    THEN IF cg.type = "2D" THEN LineBasicMaterial
         ELSE MeshStandardMaterial("DoubleSide")
    ELSE IF g = NoGraph THEN MeshStandardMaterial("FrontSide")
    ELSE IF Includes(g.type, <<"Curve">>) \/ g.type = Type2DFunction
    THEN LineBasicMaterial
    ELSE MeshStandardMaterial("DoubleSide")

FilledNames ==
    {"Circle", "Ellipse", "Cardioid", "Rose Curve", "Lemniscate of Bernoulli",
     "Astroid", "Cycloid", "Lissajous Curve"}

\* the element the component returns
Primitive(g, cg) ==
    IF cg # NullGraph THEN (IF cg.type = "2D" THEN "Line" ELSE "mesh")
    ELSE IF g = NoGraph THEN "mesh"
    ELSE IF /\ \/ Includes(g.type, <<"Curve">>)
               \/ g.type \in {Type2DFunction, Type2DParametric, Type2DPolar}
            /\ g.name \notin FilledNames
    THEN "Line"
    ELSE "mesh"

\* React renders the component with new props
Render ==
    /\ pcRender \in {"mounted", "rendered"}
    /\ \E g \in RenderGraphs \cup {NoGraph},
          cg \in RenderCustomGraphs \cup {NullGraph},
          cv \in RenderMaps,
          ev \in SampleOutcomes :
        /\ (cg # NullGraph /\ ~Parses(cg.equation)) => ev = {"throw"}
        /\ graph' = g
        /\ customGraph' = cg
        /\ controlValues' = cv
        /\ resolution' = OrDefault(cv, "resolution", DefaultResolution)
        /\ evals' = ev
        /\ geometry' = GeometryMemo(g, cg, ev)
        /\ material' = MaterialMemo(g, cg)
        /\ primitive' = Primitive(g, cg)
        /\ lastGood' =
              IF cg # NullGraph /\ ~Parses(cg.equation) THEN lastGood
              ELSE GeometryMemo(g, cg, ev)
    /\ pcRender' = "rendered"
    /\ UNCHANGED <<builder, equation, scope, i, vars2d, varsScope, vars3d,
                   varsNorm, varsDomain, varsCalc, varsUI>>

InitRender ==
    /\ builder = "GraphRenderer"
    /\ graph = NoGraph
    /\ equation = <<>>
    /\ controlValues = EmptyMap
    /\ scope = EmptyMap
    /\ resolution = 0
    /\ i = 0
    /\ customGraph = NullGraph
    /\ evals = {}
    /\ geometry = NoGeometry
    /\ material = NoMaterial
    /\ primitive = "none"
    /\ lastGood = NoGeometry
    /\ pcRender = "mounted"

IdleRender ==
    /\ evals = {}
    /\ geometry = NoGeometry
    /\ material = NoMaterial
    /\ primitive = "none"
    /\ lastGood = NoGeometry
    /\ pcRender = "idle"

----------------------------------------------------------------------------
(* Curves: createParametricGeometry, createParametricCurveGeometry and
   createPolarGeometry *)

\* Math.sin at x = 0, 0.1, ..., 20, in thousandths
SinMilliTable ==
    <<
     0, 100, 199, 296, 389, 479, 565, 644, 717, 783, 841, 891, 932, 964,
     985, 997, 1000, 992, 974, 946, 909, 863, 808, 746, 675, 598, 516, 427,
     335, 239, 141, 42, -58, -158, -256, -351, -443, -530, -612, -688,
     -757, -818, -872, -916, -952, -978, -994, -1000, -996, -982, -959,
     -926, -883, -832, -773, -706, -631, -551, -465, -374, -279, -182, -83,
     17, 117, 215, 312, 405, 494, 578, 657, 729, 794, 850, 899, 938, 968,
     988, 999, 999, 989, 970, 941, 902, 855, 798, 734, 663, 585, 501, 412,
     319, 223, 124, 25, -75, -174, -272, -366, -458, -544, -625, -700,
     -768, -828, -880, -923, -957, -981, -995, -1000, -995, -979, -954,
     -919, -875, -823, -762, -694, -618, -537, -450, -358, -263, -166, -66,
     34, 133, 232, 327, 420, 509, 592, 670, 740, 804, 859, 906, 944, 972,
     991, 999, 998, 987, 966, 935, 895, 846, 788, 723, 650, 571, 486, 397,
     303, 206, 108, 8, -92, -191, -288, -382, -472, -558, -638, -712, -778,
     -837, -888, -929, -961, -984, -997, -1000, -993, -976, -949, -913,
     -867, -813, -751, -681, -605, -522, -435, -342, -247, -149, -50, 50,
     150, 248, 343, 435, 523, 606, 682, 752, 814, 868, 913
    >>

\* Math.sin(x) for x a multiple of 0.1
Sin(x) ==
    IF x < 0 THEN -SinMilliTable[(-x) \div 100 + 1] ELSE SinMilliTable[x \div 100 + 1]

\* Math.cos(x) for x a multiple of 0.1, in thousandths
CosMilli(x) == Cos(x) \div 1000

\* 2 * Math.PI
TwoPi == 6283

\* largest resolution of the sweeps whose evaluate() outcomes are arbitrary
MaxCurveRes == 2

\* an error thrown by a calculator
Thrown2D == [x |-> Thrown, y |-> Thrown, z |-> Thrown]

LatexPair == "x = f(t), y = g(t)"
LatexTriple == "x = f(t), y = g(t), z = h(t)"
LatexPolar == "r = f(theta)"

\* graph.equation_latex.split(',').length
EquationsIn(text) ==
    CASE text = LatexPair -> 2
      [] text = LatexTriple -> 3
      [] OTHER -> 1

CurveGraph(n, t, text) == [name |-> n, type |-> t, equation_latex |-> text]

Point2(x, y) == [x |-> x, y |-> y, z |-> Num(0)]
Point3(x, y, z) == [x |-> x, y |-> y, z |-> z]
FinitePoint(p) ==
    /\ p.x.k = "num"
    /\ p.y.k = "num"
    /\ p.z.k = "num"

ParametricFilledNames == {"Circle", "Ellipse", "Astroid", "Cycloid", "Lissajous Curve"}
PolarFilledNames == {"Cardioid", "Rose Curve", "Lemniscate of Bernoulli"}

\* calculateParametric2D, generic path: what the result check and the catch
\* block return for the outcomes x, y of evaluate()
CheckedPair(x, y) ==
    IF x.k # "num" \/ y.k # "num" THEN Point2(NaN, NaN) ELSE Point2(x, y)

\* calculateParametric2D for the graphs of the model
calculateParametric2D(g, t, cv, evx, evy) ==
    IF g.name = "Circle"
    THEN LET r == OrDefault(cv, "r", OrDefault(cv, "radius", 3000))
         IN  Point2(Num(Mul(r, CosMilli(t)) + OrDefault(cv, "xOffset", 0)),
                    Num(Mul(r, Sin(t)) + OrDefault(cv, "yOffset", 0)))
    ELSE IF g.equation_latex = "undefined" THEN Point2(NaN, NaN)
    ELSE IF EquationsIn(g.equation_latex) >= 2 THEN CheckedPair(evx, evy)
    ELSE Point2(Num(t), Num(Sin(t)))

\* calculateParametric3D for the graphs of the model: the generic path first,
\* then the fallback { cos(t), sin(t), t / 5 }
calculateParametric3D(g, t, cv, evx, evy) ==
    IF g.equation_latex = "undefined" THEN Thrown2D
    ELSE IF EquationsIn(g.equation_latex) >= 3 /\ evx.k # "throw" /\ evy.k # "throw"
    THEN Point3(evx, evy, Num(1000))
    ELSE Point3(Num(CosMilli(t)), Num(Sin(t)), Num(t \div 5))

\* calculatePolar for the graphs of the model
calculatePolar(g, theta, cv, ev) ==
    IF g.name = "Lemniscate of Bernoulli"
    THEN LET a == OrDefault(cv, "a", 2000)
             n == OrDefault(cv, "n", 2000)
             cosNtheta == CosMilli(Mul(n, theta))
         IN  IF cosNtheta >= 0 THEN Num(Mul(a, Sqrt(cosNtheta))) ELSE Num(0)
    ELSE IF g.equation_latex = "undefined" \/ ev.k = "throw" THEN Num(2000)
    ELSE IF isNaN(ev) THEN Num(0)
    ELSE IF ev.k = "inf" THEN Infinity
    ELSE Num(Abs(ev.v))

\* tMin + i * step, step = (tMax - tMin) / resolution
TAt(n, res, tMin, tMax) == tMin + (n * (tMax - tMin)) \div res

\* what evaluate() can do at one sample of a curve
CurveEvalOutcomes == {Num(1000), NaN, Infinity, Thrown}

curveFrame ==
    <<builder, graph, equation, controlValues, scope, resolution, currentSegment,
      segments, varsClassify, varsScope, vars3d, varsNorm, varsDomain, varsCalc,
      evals, material, primitive, lastGood, pcRender, varsUI>>

\* one iteration of the loop of createParametricGeometry (both branches)
SampleParametric ==
    /\ pc2d = "sweep"
    /\ builder = "createParametricGeometry"
    /\ i <= resolution
    /\ LET t == TAt(i, resolution, OrDefault(controlValues, "tMin", 0),
                    OrDefault(controlValues, "tMax", TwoPi))
       IN  \E evx, evy \in CurveEvalOutcomes :
              LET p == calculateParametric2D(graph, t, controlValues, evx, evy)
              IN  IF p = Thrown2D
                  THEN /\ polyline' = polyline
                       /\ samples' = Append(samples, "fault")
                  ELSE /\ polyline' = Append(polyline, p)
                       /\ samples' = Append(samples, "valid")
    /\ i' = i + 1
    /\ UNCHANGED <<curveFrame, geometry, pc2d>>

\* one iteration of the loop of createParametricCurveGeometry
SampleParametricCurve ==
    /\ pc2d = "sweep"
    /\ builder = "createParametricCurveGeometry"
    /\ i <= resolution
    /\ LET t == TAt(i, resolution, OrDefault(controlValues, "tMin", 0),
                    OrDefault(controlValues, "tMax", TwoPi))
       IN  \E evx, evy \in CurveEvalOutcomes :
              LET p == calculateParametric3D(graph, t, controlValues, evx, evy)
              IN  IF p = Thrown2D
                  THEN /\ polyline' = polyline
                       /\ samples' = Append(samples, "fault")
                  ELSE /\ polyline' = Append(polyline, p)
                       /\ samples' = Append(samples, "valid")
    /\ i' = i + 1
    /\ UNCHANGED <<curveFrame, geometry, pc2d>>

\* one iteration of the loop of createPolarGeometry (both branches)
SamplePolar ==
    /\ pc2d = "sweep"
    /\ builder = "createPolarGeometry"
    /\ i <= resolution
    /\ LET lemniscate == graph.name = "Lemniscate of Bernoulli"
           thetaMin == IF lemniscate THEN OrDefault(controlValues, "thetaMin", 0) ELSE 0
           thetaMax ==
               IF lemniscate THEN OrDefault(controlValues, "thetaMax", TwoPi) ELSE TwoPi
           theta == TAt(i, resolution, thetaMin, thetaMax)
       IN  \E ev \in CurveEvalOutcomes :
              LET r == calculatePolar(graph, theta, controlValues, ev)
              IN  IF r.k = "inf"
                  THEN /\ polyline' = Append(polyline, Point2(Infinity, Infinity))
                       /\ samples' = Append(samples, "valid")
                  ELSE IF r.v > 0
                  THEN /\ polyline' =
                            Append(polyline,
                                   IF lemniscate
                                   THEN Point2(Num(Mul(r.v, CosMilli(theta))
                                                   + OrDefault(controlValues, "xOffset", 0)),
                                               Num(Mul(r.v, Sin(theta))
                                                   + OrDefault(controlValues, "yOffset", 0)))
                                   ELSE Point2(Num(r.v), Num(0)))
                       /\ samples' = Append(samples, "valid")
                  ELSE /\ polyline' = polyline
                       /\ samples' = Append(samples, "fault")
    /\ i' = i + 1
    /\ UNCHANGED <<curveFrame, geometry, pc2d>>

\* if (points.length < 3): fallback to a line
FewerThanThree(points) == Len(points) < 3

\* after the loop: the geometry the builder returns
CurveGeometry(b, g, points) ==
    LET filled ==
            \/ b = "createParametricGeometry" /\ g.name \in ParametricFilledNames
            \/ b = "createPolarGeometry" /\ g.name \in PolarFilledNames
    IN  IF filled /\ ~FewerThanThree(points)
        THEN Geometry(b, <<g.name>>, "ShapeGeometry")
        ELSE Geometry(b, <<g.name>>, "line")

FinishCurve ==
    /\ pc2d = "sweep"
    /\ i > resolution
    /\ geometry' = CurveGeometry(builder, graph, polyline)
    /\ pc2d' = "done"
    /\ UNCHANGED <<curveFrame, i, polyline, samples>>

\* parameter maps for which the samples fall on multiples of 0.1

CircleMaps ==
    {WithResolution([n \in {"tMax"} |-> 6000], res) : res \in {1, 5}}

LemniscateMaps ==
    {WithResolution([n \in {"thetaMin", "thetaMax"} |->
                        IF n = "thetaMin" THEN 1000 ELSE 2000], 5),
     WithResolution([n \in {"thetaMax"} |-> 2000], 10)}

FallbackMaps == {WithResolution([n \in {"tMax"} |-> 2000], 2)}

\* GraphRenderer calls the builder of graph.type with
\* resolution = controlValues.resolution || 50
InitCurve ==
    /\ \/ /\ builder = "createParametricGeometry"
          /\ \/ /\ graph = CurveGraph("Circle", Type2DParametric, LatexPair)
                /\ controlValues \in CircleMaps
             \/ /\ graph \in {CurveGraph(UnknownName, Type2DParametric, LatexPair),
                              CurveGraph(UnknownName, Type2DParametric, "undefined")}
                /\ \E res \in 1..MaxCurveRes : controlValues = WithResolution(EmptyMap, res)
             \/ /\ graph = CurveGraph(UnknownName, Type2DParametric, "x = f(t)")
                /\ controlValues \in FallbackMaps
       \/ /\ builder = "createParametricCurveGeometry"
          /\ \/ /\ graph \in {CurveGraph(UnknownName, Type3DParametricCurve, LatexTriple),
                              CurveGraph(UnknownName, Type3DParametricCurve, "undefined")}
                /\ controlValues \in FallbackMaps
       \/ /\ builder = "createPolarGeometry"
          /\ \/ /\ graph = CurveGraph("Lemniscate of Bernoulli", Type2DPolar, LatexPolar)
                /\ controlValues \in LemniscateMaps
             \/ /\ graph = CurveGraph(UnknownName, Type2DPolar, LatexPolar)
                /\ \E res \in 1..MaxCurveRes : controlValues = WithResolution(EmptyMap, res)
    /\ resolution = OrDefault(controlValues, "resolution", DefaultResolution)
    /\ equation = <<>>
    /\ scope = EmptyMap
    /\ i = 0
    /\ currentSegment = <<>>
    /\ segments = <<>>
    /\ samples = <<>>
    /\ polyline = <<>>
    /\ pc2d = "sweep"
    /\ evals = {}
    /\ geometry = NoGeometry
    /\ material = NoMaterial
    /\ primitive = "none"
    /\ lastGood = NoGeometry
    /\ pcRender = "idle"

----------------------------------------------------------------------------
(* The application: graph selection and parameter values (App.tsx) *)

\* presses of Previous / Next remembered for the properties
MaxNav == 4

\* a graph of graphList.json as getGraphsByCategory returns it
CatalogEntry(id, name, category) == [id |-> id, name |-> name, category |-> category]

\* graphList.json, in file order
graphListData ==
    <<CatalogEntry("rose", "Rose Curve", "Polar Curves"),
      CatalogEntry("cylinder", "Cylinder", "Basic Surfaces"),
      CatalogEntry("cardioid", "Cardioid", "Polar Curves"),
      CatalogEntry("sine", "Sine Function", "Trigonometric Functions"),
      CatalogEntry("lemniscate", "Lemniscate of Bernoulli", "Polar Curves"),
      CatalogEntry("cosine", "Cosine Function", "Trigonometric Functions")>>

getAllGraphs == {graphListData[n] : n \in DOMAIN graphListData}

\* a.name.localeCompare(b.name) < 0 for the names of the catalog
NameOrder ==
    <<"Cardioid", "Cosine Function", "Cylinder", "Lemniscate of Bernoulli",
      "Rose Curve", "Sine Function">>
NameRank(name) == CHOOSE n \in DOMAIN NameOrder : NameOrder[n] = name

\* getAllCategories().sort()
allCategories == <<"Basic Surfaces", "Polar Curves", "Trigonometric Functions">>

\* getGraphsByCategory(category).sort((a, b) => a.name.localeCompare(b.name))
categoryGraphs(category) ==
    LET S == {g \in getAllGraphs : g.category = category}
    IN  IF S = {} THEN <<>>
        ELSE CHOOSE seq \in [1..Cardinality(S) -> S] :
                /\ \A a, b \in DOMAIN seq : a # b => seq[a] # seq[b]
                /\ \A a, b \in DOMAIN seq :
                      a < b => NameRank(seq[a].name) < NameRank(seq[b].name)

\* categoryGraphs.findIndex(g => g.id === selectedGraph.id), counted from 1;
\* 0 when no graph has the id
findIndex(seq, id) ==
    IF \E n \in DOMAIN seq : seq[n].id = id
    THEN CHOOSE n \in DOMAIN seq :
            seq[n].id = id /\ \A m \in DOMAIN seq : seq[m].id = id => n <= m
    ELSE 0

NullSelection == CatalogEntry("", "", "")

Control(name, min, max, defaultValue) ==
    [name |-> name, min |-> min, max |-> max, defaultValue |-> defaultValue]

\* graphControls.json: the controls of each graph that has an entry
graphControls ==
    [id \in {"rose", "cylinder", "cardioid", "sine", "cosine"} |->
        CASE id = "rose" -> {Control("a", 1000, 3000, 2000), Control("k", 1000, 8000, 5000)}
          [] id = "cardioid" -> {Control("a", 500, 5000, 2000)}
          [] id = "cylinder" -> {Control("radius", 500, 5000, 2000)}
          [] id = "sine" -> {Control("amplitude", 100, 5000, 1000)}
          [] id = "cosine" -> {Control("amplitude", 100, 5000, 1000)}]

\* graphControls.find(gc => gc.id === selectedGraph.id)?.controls || []
controlsOf(g) == IF g.id \in DOMAIN graphControls THEN graphControls[g.id] ELSE {}

\* defaultValues[control.name] = control.defaultValue for each control
defaultValues(controls) ==
    [n \in {c.name : c \in controls} |->
        (CHOOSE c \in controls : c.name = n).defaultValue]

\* the history of Previous / Next presses, the oldest dropped beyond MaxNav
Remember(history, op, g) ==
    LET all == Append(history, [op |-> op, g |-> g])
    IN  IF Len(all) > MaxNav + 1 THEN Tail(all) ELSE all

\* useEffect on selectedGraph: the values after the effect
ResetValues(g, cv) ==
    IF g # NullSelection /\ g.id \in DOMAIN graphControls
    THEN defaultValues(graphControls[g.id])
    ELSE cv

\* what the handlers of App leave alone
appFrame ==
    <<builder, graph, equation, scope, resolution, i, vars2d, varsClassify,
      varsScope, vars3d, varsNorm, varsDomain, varsCalc, varsRender, varsInspect,
      varsCanvas>>

\* the effect runs after the render that followed setSelectedGraph, and the
\* component renders again with the values it set
RunEffect ==
    /\ pcApp = "effect"
    /\ controlValues' = ResetValues(selectedGraph, controlValues)
    /\ pcApp' = "ready"
    /\ UNCHANGED <<selectedCategory, selectedGraph, navHistory>>
    /\ UNCHANGED appFrame

handleCategoryChange ==
    /\ pcApp = "ready"
    /\ \E categoryName \in {allCategories[n] : n \in DOMAIN allCategories} :
         LET newCategoryGraphs == categoryGraphs(categoryName)
         IN  /\ selectedCategory' = categoryName
             /\ IF Len(newCategoryGraphs) > 0
                THEN /\ selectedGraph' = newCategoryGraphs[1]
                     /\ pcApp' = "effect"
                ELSE UNCHANGED <<selectedGraph, pcApp>>
             /\ navHistory' = <<[op |-> "start", g |-> selectedGraph']>>
    /\ UNCHANGED controlValues
    /\ UNCHANGED appFrame

GraphIds == {g.id : g \in getAllGraphs} \cup {"unknown"}

handleGraphChange ==
    /\ pcApp = "ready"
    /\ \E graphId \in GraphIds :
         IF \E g \in getAllGraphs : g.id = graphId
         THEN LET g == CHOOSE g \in getAllGraphs : g.id = graphId
              IN  /\ selectedGraph' = g
                  /\ selectedCategory' = g.category
                  /\ pcApp' = "effect"
                  /\ navHistory' = <<[op |-> "start", g |-> g]>>
         ELSE UNCHANGED <<selectedGraph, selectedCategory, pcApp, navHistory>>
    /\ UNCHANGED controlValues
    /\ UNCHANGED appFrame

\* the slider of a control of the selected graph is moved
handleControlValueChange ==
    /\ pcApp = "ready"
    /\ \E control \in controlsOf(selectedGraph) :
         \E value \in {control.min, control.defaultValue, control.max} :
            controlValues' = Spread(controlValues, [n \in {control.name} |-> value])
    /\ UNCHANGED <<selectedCategory, selectedGraph, navHistory, pcApp>>
    /\ UNCHANGED appFrame

\* a Previous that stops at the first graph
PreviousNoWrap(seq, currentIndex) ==
    IF currentIndex > 1 THEN seq[currentIndex - 1] ELSE seq[1]

\* handlePreviousGraph: the graph selected, currentIndex counted from 1
PreviousOf(seq, currentIndex) ==
    IF currentIndex > 1 THEN seq[currentIndex - 1] ELSE seq[Len(seq)]

\* a Next that stops at the last graph
NextNoWrap(seq, currentIndex) ==
    IF currentIndex < Len(seq) THEN seq[currentIndex + 1] ELSE seq[Len(seq)]

\* handleNextGraph: the graph selected, currentIndex counted from 1
NextOf(seq, currentIndex) ==
    IF currentIndex < Len(seq) THEN seq[currentIndex + 1] ELSE seq[1]

handlePreviousGraph ==
    /\ pcApp = "ready"
    /\ selectedGraph # NullSelection /\ selectedCategory # ""
    /\ LET seq == categoryGraphs(selectedCategory)
       IN  selectedGraph' = PreviousOf(seq, findIndex(seq, selectedGraph.id))
    /\ navHistory' = Remember(navHistory, "previous", selectedGraph')
    /\ pcApp' = "effect"
    /\ UNCHANGED <<selectedCategory, controlValues>>
    /\ UNCHANGED appFrame

handleNextGraph ==
    /\ pcApp = "ready"
    /\ selectedGraph # NullSelection /\ selectedCategory # ""
    /\ LET seq == categoryGraphs(selectedCategory)
       IN  selectedGraph' = NextOf(seq, findIndex(seq, selectedGraph.id))
    /\ navHistory' = Remember(navHistory, "next", selectedGraph')
    /\ pcApp' = "effect"
    /\ UNCHANGED <<selectedCategory, controlValues>>
    /\ UNCHANGED appFrame

\* the first render: useState initial values, the effect not yet run
InitApp ==
    /\ selectedCategory = allCategories[1]
    /\ selectedGraph = categoryGraphs(allCategories[1])[1]
    /\ controlValues = EmptyMap
    /\ navHistory = <<[op |-> "start", g |-> selectedGraph]>>
    /\ pcApp = "effect"

IdleApp ==
    /\ selectedCategory = ""
    /\ selectedGraph = NullSelection
    /\ navHistory = <<>>
    /\ pcApp = "idle"

----------------------------------------------------------------------------
(* The coordinate inspector: CanvasInspector.tsx *)

\* events explored after the mount
MaxEvents == 3

\* Date.now() at the mount
StartTime == 1000

\* throttle(handleRaycast, 16)
ThrottleLimit == 16

\* the age in ms after which the cache is rebuilt
CacheAge == 500

\* the time that passes before an event
Ticks == {0, 15, 16, 501}

\* a throttle that compares the clock, not the time since the last call
AllowsWithoutLast(t, last, limit) == t >= limit

\* now - lastCallTimeRef.current >= limit
ThrottleAllows(t, last, limit) == t - last >= limit

\* getIntersectableObjects: the cache after the call at time t
getIntersectableObjects(t, updated, cache, scene) ==
    IF t - updated > CacheAge THEN scene ELSE cache

\* the time of the last refresh after the call at time t
SceneUpdateAfter(t, updated) == IF t - updated > CacheAge THEN t ELSE updated

inspectFrame ==
    <<varsCore, varsNorm, varsDomain, varsCalc, varsRender, varsApp, varsCanvas>>

\* a mousemove event reaches throttledMouseMove
MouseMove ==
    /\ lastEvent \in {"mounted", "raycast", "dropped", "graph"}
    /\ Len(raycastTimes) < MaxEvents
    /\ \E tick \in Ticks :
         /\ now' = now + tick
         /\ IF ThrottleAllows(now', lastCallTime, ThrottleLimit)
            THEN /\ lastCallTime' = now'
                 /\ cacheObjects' =
                       getIntersectableObjects(now', lastSceneUpdate, cacheObjects,
                                               sceneObjects)
                 /\ lastSceneUpdate' = SceneUpdateAfter(now', lastSceneUpdate)
                 \* intersects[0], or no intersection
                 /\ tooltipFrom' \in cacheObjects' \cup {0}
                 /\ raycastTimes' = Append(raycastTimes, now')
                 /\ lastEvent' = "raycast"
            ELSE /\ lastEvent' = "dropped"
                 /\ UNCHANGED <<lastCallTime, cacheObjects, lastSceneUpdate, tooltipFrom,
                                raycastTimes>>
    /\ UNCHANGED <<inspectFrame, sceneObjects>>

\* another graph is selected: its object replaces the one in the scene
SceneChange ==
    /\ lastEvent \in {"mounted", "raycast", "dropped", "graph"}
    /\ \A o \in sceneObjects : o < MaxEvents
    /\ \E tick \in Ticks :
         /\ now' = now + tick
         /\ sceneObjects' = {o + 1 : o \in sceneObjects}
    /\ lastEvent' = "graph"
    /\ UNCHANGED <<inspectFrame, lastCallTime, lastSceneUpdate, cacheObjects,
                   tooltipFrom, raycastTimes>>

InitInspect ==
    /\ now = StartTime
    /\ lastCallTime = 0
    /\ lastSceneUpdate = 0
    /\ sceneObjects = {1}
    /\ cacheObjects = {}
    /\ tooltipFrom = 0
    /\ raycastTimes = <<>>
    /\ lastEvent = "mounted"

IdleInspect ==
    /\ now = 0
    /\ lastCallTime = 0
    /\ lastSceneUpdate = 0
    /\ sceneObjects = {}
    /\ cacheObjects = {}
    /\ tooltipFrom = 0
    /\ raycastTimes = <<>>
    /\ lastEvent = "idle"

----------------------------------------------------------------------------
(* The canvas and its orbit controls: RightCanvas in GraphControls.tsx *)

\* dolly steps explored in either direction
MaxDolly == 2

\* handlers that run before the component renders again
MaxBatch == 2

canvasFrame ==
    <<varsCore, varsNorm, varsDomain, varsCalc, varsRender, varsApp, varsInspect>>

\* the state a handler leaves, and the handler remembered
Handled(name, rotating, panMode) ==
    /\ isRotating' = rotating
    /\ isPanMode' = panMode
    /\ handlersRun' = handlersRun + 1
    /\ lastHandler' = name
    /\ UNCHANGED <<renderedRotating, renderedPanMode, controlsMounted>>

CanHandle == lastHandler # "idle" /\ handlersRun < MaxBatch

\* <OrbitControls ref={controlsRef} enablePan enableRotate
\* autoRotate={isRotating} /> is created with the props of the render
MountControls ==
    /\ lastHandler # "idle"
    /\ ~controlsMounted
    /\ controlsMounted' = TRUE
    /\ renderedRotating' = isRotating
    /\ renderedPanMode' = isPanMode
    /\ autoRotate' = isRotating
    /\ enableRotate' = TRUE
    /\ handlersRun' = 0
    /\ UNCHANGED <<isRotating, isPanMode, cameraView, dolly, lastHandler>>
    /\ UNCHANGED canvasFrame

\* the component renders with the state the handlers set; of the props of
\* OrbitControls only autoRotate can differ from the last render's, and a
\* prop that differs is written to the controls
RenderCanvas ==
    /\ lastHandler # "idle"
    /\ controlsMounted
    /\ handlersRun > 0
    /\ renderedRotating' = isRotating
    /\ renderedPanMode' = isPanMode
    /\ autoRotate' = IF isRotating # renderedRotating THEN isRotating ELSE autoRotate
    /\ handlersRun' = 0
    /\ UNCHANGED <<isRotating, isPanMode, controlsMounted, enableRotate, cameraView,
                   dolly, lastHandler>>
    /\ UNCHANGED canvasFrame

\* handleZoomIn (step = 1) and handleZoomOut (step = -1)
handleZoom(name, step) ==
    /\ CanHandle
    /\ IF controlsMounted
       THEN /\ dolly + step \in -MaxDolly..MaxDolly
            /\ autoRotate' = FALSE
            /\ enableRotate' = TRUE
            /\ dolly' = dolly + step
            /\ Handled(name, FALSE, FALSE)
       ELSE /\ Handled(name, isRotating, isPanMode)
            /\ UNCHANGED <<autoRotate, enableRotate, dolly>>
    /\ UNCHANGED cameraView
    /\ UNCHANGED canvasFrame

handleZoomIn == handleZoom("ZoomIn", 1)

handleZoomOut == handleZoom("ZoomOut", -1)

handleRotate ==
    /\ CanHandle
    /\ Handled("Rotate", ~renderedRotating, FALSE)
    /\ IF controlsMounted
       THEN /\ autoRotate' = ~renderedRotating
            /\ enableRotate' = TRUE
       ELSE UNCHANGED <<autoRotate, enableRotate>>
    /\ UNCHANGED <<cameraView, dolly>>
    /\ UNCHANGED canvasFrame

\* a handlePan that writes the new pan mode to enableRotate
EnableRotateAsNewMode(panMode) == ~panMode

\* handlePan: controlsRef.current.enableRotate = isPanMode
EnableRotateInPan(panMode) == panMode

handlePan ==
    /\ CanHandle
    /\ IF controlsMounted
       THEN /\ autoRotate' = FALSE
            /\ enableRotate' = EnableRotateInPan(renderedPanMode)
            /\ Handled("Pan", FALSE, ~renderedPanMode)
       ELSE /\ Handled("Pan", isRotating, isPanMode)
            /\ UNCHANGED <<autoRotate, enableRotate>>
    /\ UNCHANGED <<cameraView, dolly>>
    /\ UNCHANGED canvasFrame

\* handleXAxisView, handleYAxisView, handleZAxisView
handleAxisView ==
    /\ CanHandle
    /\ \E axis \in {"x", "y", "z"} :
         IF controlsMounted
         THEN /\ autoRotate' = FALSE
              /\ enableRotate' = TRUE
              /\ cameraView' = axis
              /\ Handled("AxisView", FALSE, FALSE)
         ELSE /\ Handled("AxisView", isRotating, isPanMode)
              /\ UNCHANGED <<autoRotate, enableRotate, cameraView>>
    /\ UNCHANGED dolly
    /\ UNCHANGED canvasFrame

\* the first render: useState(false) twice, the controls not yet created
InitCanvas ==
    /\ isRotating = FALSE
    /\ isPanMode = FALSE
    /\ renderedRotating = FALSE
    /\ renderedPanMode = FALSE
    /\ controlsMounted = FALSE
    /\ autoRotate = FALSE
    /\ enableRotate = FALSE
    /\ cameraView = "initial"
    /\ dolly = 0
    /\ handlersRun = 0
    /\ lastHandler = "none"

IdleCanvas ==
    /\ isRotating = FALSE
    /\ isPanMode = FALSE
    /\ renderedRotating = FALSE
    /\ renderedPanMode = FALSE
    /\ controlsMounted = FALSE
    /\ autoRotate = FALSE
    /\ enableRotate = FALSE
    /\ cameraView = "initial"
    /\ dolly = 0
    /\ handlersRun = 0
    /\ lastHandler = "idle"

IdleUI == IdleApp /\ IdleInspect /\ IdleCanvas

IdleMore == IdleNorm /\ IdleDomain /\ IdleCalc /\ IdleRender /\ IdleUI

\* inputs of the builders, unused outside them
IdleInputs ==
    /\ builder = "none"
    /\ graph = NoGraph
    /\ equation = <<>>
    /\ controlValues = EmptyMap
    /\ scope = EmptyMap
    /\ resolution = 0
    /\ i = 0

----------------------------------------------------------------------------
(* Specifications *)

\* the 2D assemblers
InitSweep == Init2D /\ IdleClassify /\ IdleScope /\ Idle3D /\ IdleMore
SpecSweep == InitSweep /\ [][Next2D]_vars

\* the classifier
InitClassifier == InitClassify /\ Idle2D /\ IdleScope /\ Idle3D /\ IdleMore
NextClassifier == CreateCustomGraph
SpecClassify == InitClassifier /\ [][NextClassifier]_vars

\* scope construction on the five evaluation paths
InitScopes == InitScope /\ Idle2D /\ IdleClassify /\ Idle3D /\ IdleMore
NextScopes ==
    \/ SurfaceScopeStep
    \/ Function2DScopeStep
    \/ PolarScopeStep
    \/ Custom2DScopeStep
    \/ Custom3DScopeStep
SpecScope == InitScopes /\ [][NextScopes]_vars

\* the 3D grid builders
InitGrid == Init3D /\ Idle2D /\ IdleClassify /\ IdleScope /\ IdleMore
NextGrid ==
    \/ SurfaceVertexStep
    \/ CustomVertexStep
    \/ CustomIndexLoop
    \/ TwoSheetsStep
    \/ OneSheetStep
SpecGrid == InitGrid /\ [][NextGrid]_vars

\* the normalizer
IdleCore == IdleInputs /\ Idle2D /\ IdleClassify /\ IdleScope /\ Idle3D
InitNormalizer ==
    InitNorm /\ IdleCore /\ IdleDomain /\ IdleCalc /\ IdleRender /\ IdleUI
NextNormalizer == ConvertLatex
SpecNorm == InitNormalizer /\ [][NextNormalizer]_vars

\* the domain validator
InitValidator ==
    InitDomain /\ IdleCore /\ IdleNorm /\ IdleCalc /\ IdleRender /\ IdleUI
NextValidator == ValidateDomainCall
SpecDomain == InitValidator /\ [][NextValidator]_vars

\* the point calculators
InitCalculators ==
    InitCalc /\ Idle2D /\ IdleClassify /\ IdleScope /\ Idle3D /\ IdleNorm /\ IdleDomain
        /\ IdleRender /\ IdleUI
NextCalculators == CalculatePoint
SpecCalc == InitCalculators /\ [][NextCalculators]_vars

\* the component
InitComponent ==
    InitRender /\ Idle2D /\ IdleScope /\ Idle3D /\ IdleNorm /\ IdleDomain /\ IdleCalc
        /\ IdleUI
NextComponent == Render
SpecRender == InitComponent /\ [][NextComponent]_vars

\* the curve builders
InitCurves ==
    InitCurve /\ IdleClassify /\ IdleScope /\ Idle3D /\ IdleNorm /\ IdleDomain /\ IdleCalc
        /\ IdleUI
NextCurves == SampleParametric \/ SampleParametricCurve \/ SamplePolar \/ FinishCurve
SpecCurve == InitCurves /\ [][NextCurves]_vars

\* the coordinate inspector
InitInspector ==
    InitInspect /\ IdleCore /\ IdleNorm /\ IdleDomain /\ IdleCalc /\ IdleRender /\ IdleApp
        /\ IdleCanvas
NextInspector == MouseMove \/ SceneChange
SpecInspect == InitInspector /\ [][NextInspector]_vars

\* the canvas
InitRightCanvas ==
    InitCanvas /\ IdleCore /\ IdleNorm /\ IdleDomain /\ IdleCalc /\ IdleRender /\ IdleApp
        /\ IdleInspect
NextRightCanvas ==
    \/ MountControls
    \/ RenderCanvas
    \/ handleZoomIn
    \/ handleZoomOut
    \/ handleRotate
    \/ handlePan
    \/ handleAxisView
SpecCanvas == InitRightCanvas /\ [][NextRightCanvas]_vars

\* the application
InitApplication ==
    /\ InitApp
    /\ builder = "App"
    /\ graph = NoGraph
    /\ equation = <<>>
    /\ scope = EmptyMap
    /\ resolution = 0
    /\ i = 0
    /\ Idle2D /\ IdleClassify /\ IdleScope /\ Idle3D
    /\ IdleNorm /\ IdleDomain /\ IdleCalc /\ IdleRender
    /\ IdleInspect /\ IdleCanvas
NextApplication ==
    \/ RunEffect
    \/ handleCategoryChange
    \/ handleGraphChange
    \/ handleControlValueChange
    \/ handlePreviousGraph
    \/ handleNextGraph
SpecApp == InitApplication /\ [][NextApplication]_vars

----------------------------------------------------------------------------
(* Properties of the 2D sweep *)

\* sample positions are 1-based in samples: sample index n is samples[n + 1]
IsValidSample(n) == n + 1 \in 1..Len(samples) /\ samples[n + 1] = "valid"

\* a maximal run of valid samples, as a pair of sample indices
IsMaximalRun(a, b) ==
    /\ a <= b
    /\ \A n \in a..b : IsValidSample(n)
    /\ ~IsValidSample(a - 1)
    /\ ~IsValidSample(b + 1)

SampleIndices == 0..(Len(samples) - 1)

\* segment seg holds exactly the samples a..b, in order
HoldsRun(seg, a, b) ==
    /\ Len(seg) = b - a + 1
    /\ \A n \in 1..Len(seg) : seg[n].i = a + n - 1

\* the recorded segments are, in sweep order, the maximal runs of at least
\* minLen samples
SegmentsAreRuns(minLen) ==
    /\ \A s \in 1..Len(segments) :
         \E a, b \in SampleIndices :
            IsMaximalRun(a, b) /\ b - a + 1 >= minLen /\ HoldsRun(segments[s], a, b)
    /\ \A a, b \in SampleIndices :
         IsMaximalRun(a, b) /\ b - a + 1 >= minLen =>
            \E s \in 1..Len(segments) : HoldsRun(segments[s], a, b)
    /\ \A s, t \in 1..Len(segments) :
         s < t => segments[s][1].i < segments[t][1].i

FaultCount == Cardinality({n \in 1..Len(samples) : samples[n] = "fault"})

\* C1: every recorded segment is a run of consecutive sample indices that were
\* all valid, so no segment holds two points with a faulted sample between them.
C1_SegmentsNeverSpanFault ==
    \A s \in 1..Len(segments) :
       \A n \in 1..Len(segments[s]) :
          /\ IsValidSample(segments[s][n].i)
          /\ n > 1 => segments[s][n].i = segments[s][n - 1].i + 1

\* C1 witness: two segments were recorded on either side of a fault
C1_Witness ==
    /\ Len(segments) >= 2
    /\ \E n \in 1..Len(samples) : samples[n] = "fault"

\* C2 (as claimed): for 1/x over [-10,10] (catalog branch at resolution 20,
\* custom equation on its own sweep) the polyline has no point at x = 0 and
\* all of its points have x of the same sign.
C2_ReciprocalExcludesZero ==
    (/\ pc2d = "done"
     /\ \/ /\ builder = "create2DFunctionGeometry"
           /\ graph.name = ReciprocalName
           /\ resolution = ScenarioResolution
        \/ /\ builder = "createCustom2DCurve"
           /\ equation = EqReciprocal)
    => /\ \A n \in 1..Len(polyline) : polyline[n].x # 0
       /\ \/ \A n \in 1..Len(polyline) : polyline[n].x < 0
          \/ \A n \in 1..Len(polyline) : polyline[n].x > 0

\* C6 (as claimed): after the sweep the recorded segments are exactly the
\* maximal runs of valid samples, single-sample runs included.
C6_AllMaximalRunsRecorded == pc2d = "done" => SegmentsAreRuns(1)

\* C6 (amended): after the sweep the recorded segments are exactly the maximal
\* runs of at least two consecutive valid samples, in sweep order.
C6_RunsOfTwoOrMoreRecorded == pc2d = "done" => SegmentsAreRuns(2)

\* C6 witness: a sweep ended with a recorded segment and a dropped single run
C6_Witness ==
    /\ pc2d = "done"
    /\ Len(segments) >= 1
    /\ \E a \in SampleIndices : IsMaximalRun(a, a)

\* C7: the returned polyline is the recorded segment with the greatest point
\* count, and among several of that count the one recorded first.
C7_LongestFirstSeen ==
    pc2d = "done" =>
       IF Len(segments) = 0 THEN polyline = <<>>
       ELSE \E s \in 1..Len(segments) :
              /\ polyline = segments[s]
              /\ \A t \in 1..Len(segments) : Len(segments[t]) <= Len(segments[s])
              /\ \A t \in 1..(s - 1) : Len(segments[t]) < Len(segments[s])

\* C7 witness: two segments tie for the greatest count and the first is returned
C7_Witness ==
    /\ pc2d = "done"
    /\ Len(segments) >= 2
    /\ Len(segments[1]) = Len(segments[2])
    /\ \A t \in 1..Len(segments) : Len(segments[t]) <= Len(segments[1])
    /\ polyline = segments[1]

\* C8 (as claimed): for every resolution >= 1, a sweep in which exactly one
\* sample faults returns a non-empty polyline.
C8_SingleFaultNeverBlanks ==
    (pc2d = "done" /\ resolution >= 1 /\ FaultCount = 1) => Len(polyline) > 0

\* C8 (amended): for every resolution >= 3, a sweep in which exactly one sample
\* faults returns a non-empty polyline.
C8_SingleFaultNeverBlanksFrom3 ==
    (pc2d = "done" /\ resolution >= 3 /\ FaultCount = 1) => Len(polyline) > 0

\* C8 witness: a sweep of at least 3 steps with one fault returned points
C8_Witness ==
    /\ pc2d = "done"
    /\ resolution >= 3
    /\ FaultCount = 1
    /\ Len(polyline) > 0

----------------------------------------------------------------------------
(* Properties of the classifier *)

\* the extracted variables outside the parameter-like set
CoordinateLike(g) == {v.name : v \in g.variables} \ commonParameterVars

\* the text begins with z (any case, leading blanks ignored) followed by '='
BeginsWithZEquals(eq) ==
    LET t == ToLowerCase(Trim(eq))
    IN  /\ Len(t) >= 2
        /\ t[1] = "z"
        /\ StartsWith(TrimStart(Tail(t)), <<"=">>)

\* C3 (as claimed): createCustomGraph gives the 3D kind for "z = x^2 + y^2" and
\* the 2D kind for "y = sin(x)".
C3_ClassifierAgreement ==
    customGraph # NullGraph =>
       /\ equation = EqParaboloid => customGraph.type = "3D"
       /\ equation = EqSine => customGraph.type = "2D"

\* C4 (as claimed): the type is 3D exactly when the text begins with z followed
\* by '=' or at least two extracted variables are coordinate-like.
C4_TypeRule ==
    customGraph # NullGraph =>
       (customGraph.type = "3D" <=>
           (BeginsWithZEquals(equation) \/ Cardinality(CoordinateLike(customGraph)) >= 2))

----------------------------------------------------------------------------
(* Properties of scope construction *)

\* C5 (as claimed): on every evaluation path the value bound to a swept
\* coordinate name in the scope passed to evaluate() is the sample coordinate.
C5_CoordinateWins ==
    evalPath # "none" => \A n \in DOMAIN sampleAt : evalScope[n] = sampleAt[n]

----------------------------------------------------------------------------
(* Properties of the 3D grids *)

\* the height component of a vertex: createCustom3DSurface writes (x, z, y)
Height(v) == IF builder = "createCustom3DSurface" THEN v.y ELSE v.z

\* C9 (as claimed): in the 3D grid sweep a grid point whose height computation
\* faulted is written with height exactly 0, and every vertex is finite.
C9_FaultedCellsGetZero ==
    builder \in {"createSurfaceGeometry", "createCustom3DSurface"} =>
       \A n \in 1..Len(vertices) :
          /\ cellFault[n] => Height(vertices[n]) = Num(0)
          /\ isFinite(vertices[n].x) /\ isFinite(vertices[n].y) /\ isFinite(vertices[n].z)

\* C10 (as claimed): in the meshes triangulated by the engine every index of
\* the index buffer is smaller than the number of vertices.
C10_IndexBufferValid ==
    (/\ pc3d = "done"
     /\ builder \in {"createHyperboloidTwoSheetsGeometry",
                     "createHyperboloidOneSheetGeometry",
                     "createCustom3DSurface"})
    => \A n \in 1..Len(indices) : indices[n] < Len(vertices)

----------------------------------------------------------------------------
(* Properties of the custom 3D surface *)

\* the vertex loop of createCustom3DSurface is over
CustomGridBuilt == builder = "createCustom3DSurface" /\ pc3d \in {"indices", "done"}

\* C11: a custom 3D surface has exactly (resolution+1)^2 vertices whatever
\* the outcomes of its sample points: cell (i, j) is the vertex at position
\* i*(resolution+1)+j, and the saddle x^2 - y^2 has height 0 at the grid
\* centre (0, 0)
C11_CustomGridComplete ==
    /\ builder = "createCustom3DSurface" /\ pc3d = "vertices"
         => Len(vertices) = i * (resolution + 1) + j
    /\ CustomGridBuilt =>
         /\ Len(vertices) = (resolution + 1) * (resolution + 1)
         /\ \A a \in 0..resolution, b \in 0..resolution :
              LET v == vertices[a * (resolution + 1) + b + 1]
              IN  /\ v.x = Num(XAt(a, resolution))
                  /\ v.z = Num(XAt(b, resolution))
         /\ equation = EqSaddle /\ resolution % 2 = 0 =>
              LET h == resolution \div 2
                  v == vertices[h * (resolution + 1) + h + 1]
              IN  v.x = Num(0) /\ v.z = Num(0) /\ v.y = Num(0)

\* a finished custom grid holding faulted and valid cells
C11_Witness ==
    /\ CustomGridBuilt
    /\ pc3d = "done"
    /\ \E n \in 1..Len(cellFault) : cellFault[n]
    /\ \E n \in 1..Len(cellFault) : ~cellFault[n]

----------------------------------------------------------------------------
(* Properties of the normalizer *)

\* C12: the implicit-multiplication pass never splits a protected name (sin,
\* cos, tan, log, exp, pi): when the name occurs in the text after macro
\* expansion it occurs, letters adjacent, in the output of
\* convertLatexToMathjs; and the juxtaposed variables xy become x*y
C12_ProtectedNamesKept ==
    pcNorm = "done" =>
        /\ \A name \in ProtectedNames :
             Includes(MacroExpand(IF Includes(latex, <<"=">>)
                                  THEN RightHandSide(latex) ELSE latex), name)
                 => Includes(expr, name)
        /\ latex = <<"x", "y">> => expr = <<"x", "*", "y">>

\* C12 (the part that holds): pi is never split and xy becomes x*y
C12_PiKept ==
    pcNorm = "done" =>
        /\ Includes(MacroExpand(IF Includes(latex, <<"=">>)
                                THEN RightHandSide(latex) ELSE latex), <<"p", "i">>)
             => Includes(expr, <<"p", "i">>)
        /\ latex = <<"x", "y">> => expr = <<"x", "*", "y">>

----------------------------------------------------------------------------
(* Properties of the domain validator *)

HasLogSignature(eq) ==
    Includes(ToLowerCase(eq), <<"l", "o", "g">>) \/ Includes(ToLowerCase(eq), <<"l", "n">>)

HasOtherSignature(eq) ==
    \/ Includes(ToLowerCase(eq), <<"s", "q", "r", "t">>)
    \/ Includes(ToLowerCase(eq), <<"1", "/", "x">>)
    \/ Includes(ToLowerCase(eq), <<"t", "a", "n">>)

\* C13 (as stated): for a text containing log or ln, validateDomain is
\* invalid for every x <= 0 and, absent sqrt, 1/x and tan, valid for every
\* x > 0
C13_LogDomain ==
    domainCheck \in {"valid", "invalid"} /\ HasLogSignature(domainArgs.equation) =>
        /\ domainArgs.x <= 0 => domainCheck = "invalid"
        /\ domainArgs.x > 0 /\ ~HasOtherSignature(domainArgs.equation)
             => domainCheck = "valid"

\* C13 (amended): for a text containing log or ln, validateDomain is invalid
\* for every x <= 0; absent sqrt, 1/x and tan it is valid for x > 0 exactly
\* when no y is passed, y > 0, or the text has no letter y
C13_LogDomainWithY ==
    domainCheck \in {"valid", "invalid"} /\ HasLogSignature(domainArgs.equation) =>
        /\ domainArgs.x <= 0 => domainCheck = "invalid"
        /\ domainArgs.x > 0 /\ ~HasOtherSignature(domainArgs.equation) =>
             (domainCheck = "valid" <=>
                 \/ ~domainArgs.hasY
                 \/ domainArgs.y > 0
                 \/ ~Includes(ToLowerCase(domainArgs.equation), <<"y">>))

\* validateDomain("log(x)", 0) has returned: the coordinate 0 is rejected
C13_Witness ==
    /\ domainArgs.equation = EqLog
    /\ domainArgs.x = 0
    /\ ~domainArgs.hasY
    /\ domainCheck = "invalid"

----------------------------------------------------------------------------
(* Properties of the named-surface solver *)

\* is (x, y) outside the domain of the named shape, for the parameters the
\* solver reads from cv (the hyperboloid of one sheet reads a for both axes)
OutsideShape(name, x, y, cv) ==
    CASE name = "Torus (Doughnut)" ->
           LET R == OrDefault(cv, "R", 3000)
               r == OrDefault(cv, "r", 1500)
           IN  \/ x * x + y * y > (R + r) * (R + r)
               \/ R > r /\ x * x + y * y < (R - r) * (R - r)
      [] name = "Sphere" ->
           x * x + y * y > OrDefault(cv, "radius", 3000) * OrDefault(cv, "radius", 3000)
      [] name = "Ellipsoid" ->
           SquareRatio(x, OrDefault(cv, "a", 3000))
               + SquareRatio(y, OrDefault(cv, "b", 2000)) > 1000
      [] name = "Hyperboloid of One Sheet" ->
           SquareRatio(x, OrDefault(cv, "a", 2000))
               + SquareRatio(y, OrDefault(cv, "a", 2000)) < 1000
      [] name = HelicoidName ->
           x * x + y * y > OrDefault(cv, "uRange", 3000) * OrDefault(cv, "uRange", 3000)
      [] name = "Cylinder" ->
           x * x + y * y > OrDefault(cv, "radius", 2000) * OrDefault(cv, "radius", 2000)
      [] OTHER -> FALSE

\* C14: for every point outside the domain of a named shape (Torus, Sphere,
\* Ellipsoid, Hyperboloid of One Sheet, Helicoid, Cylinder) the height
\* returned by calculateSurfaceZ is NaN
C14_NaNOutsideDomain ==
    pcCalc = "done" /\ calcFn = "calculateSurfaceZ"
        /\ OutsideShape(graph.name, calcAt.x, calcAt.y, controlValues)
        => isNaN(calcResult)

----------------------------------------------------------------------------
(* Properties of the point calculators *)

Steps(trace) == {trace[n] : n \in 1..Len(trace)}

\* C15: for a graph whose name matches a named branch of the calculator, the
\* generic path (convertLatexToMathjs and evaluate on equation_latex) is
\* never executed, in all five calculators
C15_CatalogBeforeGeneric ==
    pcCalc = "done" /\ graph.name \in NamesOf(calcFn) =>
        Steps(callTrace) \cap {"convertLatexToMathjs", "evaluate"} = {}

----------------------------------------------------------------------------
(* Properties of the component *)

\* the last render was given a custom graph whose text does not parse, after
\* a build that succeeded
UnparseableAfterSuccess ==
    /\ pcRender = "rendered"
    /\ customGraph # NullGraph
    /\ ~Parses(customGraph.equation)
    /\ lastGood # NoGeometry

C17_NoBuildIsFatal ==
    pcRender = "rendered" => geometry.k = "geometry"

C17_Witness ==
    /\ pcRender = "rendered"
    /\ customGraph = NullGraph
    /\ graph # NoGraph
    /\ graph.type = Type3DParametricCurve
    /\ evals = {"throw"}
    /\ geometry = Geometry("createParametricCurveGeometry", <<graph.name>>, "empty")

----------------------------------------------------------------------------
(* The tangent *)

\* a finished sweep of the tangent: the catalog graph at the default
\* resolution, or the custom equation tan(x)
TangentSweepDone ==
    /\ pc2d = "done"
    /\ \/ /\ builder = "create2DFunctionGeometry"
          /\ graph.name = TangentName
          /\ resolution = DefaultResolution
       \/ /\ builder = "createCustom2DCurve"
          /\ equation = EqTan

\* C18: the sweep of the tangent is broken at the asymptotes into two
\* segments or more, and the polyline shown has no point with |y| > 100.
C18_TangentBrokenAndBounded ==
    TangentSweepDone =>
        /\ Len(segments) >= 2
        /\ \A n \in 1..Len(polyline) : Abs(polyline[n].y) <= 100000

----------------------------------------------------------------------------
(* Material and element *)

\* C20: a graph drawn as a THREE.Line has the line material, a graph drawn
\* as a mesh has the shaded double-sided mesh material.
C20_MaterialMatchesElement ==
    (pcRender = "rendered" /\ (graph # NoGraph \/ customGraph # NullGraph)) =>
        /\ primitive = "Line" => material = LineBasicMaterial
        /\ primitive = "mesh" => material = MeshStandardMaterial("DoubleSide")

----------------------------------------------------------------------------
(* Properties of the application *)

InCategory(g, category) ==
    \E n \in DOMAIN categoryGraphs(category) : categoryGraphs(category)[n] = g

\* the last press recorded and the graph selected before it
LastPress == navHistory[Len(navHistory)]
BeforeLastPress == navHistory[Len(navHistory) - 1].g

\* C21: the selected graph is a graph of the selected category, Next from
\* the last graph of the category selects the first and Previous from the
\* first selects the last.
C21_NavigationStaysInCategory ==
    pcApp \in {"ready", "effect"} =>
        LET seq == categoryGraphs(selectedCategory)
        IN  /\ selectedGraph # NullSelection => InCategory(selectedGraph, selectedCategory)
            /\ (Len(navHistory) > 1 /\ LastPress.op = "next"
                    /\ BeforeLastPress = seq[Len(seq)])
                  => selectedGraph = seq[1]
            /\ (Len(navHistory) > 1 /\ LastPress.op = "previous"
                    /\ BeforeLastPress = seq[1])
                  => selectedGraph = seq[Len(seq)]

C21_Witness ==
    /\ Len(navHistory) > 1
    /\ LastPress.op = "previous"
    /\ Len(categoryGraphs(selectedCategory)) = 3
    /\ BeforeLastPress = categoryGraphs(selectedCategory)[1]
    /\ selectedGraph = categoryGraphs(selectedCategory)[3]

\* the value is one the control of that name of the graph allows
WithinControl(g, name, value) ==
    \E c \in controlsOf(g) : c.name = name /\ c.min <= value /\ value <= c.max

\* C22: in every render the values handed to the build belong to controls
\* of the selected graph and lie within [min, max] of them.
C22_ValuesWithinControls ==
    pcApp \in {"ready", "effect"} =>
        \A n \in DOMAIN controlValues : WithinControl(selectedGraph, n, controlValues[n])

\* C23: the reset effect leaves exactly the default value of each control
\* of the selected graph, and nothing when the graph has no controls.
C23_EffectResetsToDefaults ==
    [][RunEffect => controlValues' = defaultValues(controlsOf(selectedGraph))]_vars

----------------------------------------------------------------------------
(* Properties of the curve builders *)

\* C24: every point pushed by createParametricGeometry and
\* createParametricCurveGeometry has finite coordinates.
C24_ParametricPointsFinite ==
    builder \in {"createParametricGeometry", "createParametricCurveGeometry"} =>
        \A n \in 1..Len(polyline) : FinitePoint(polyline[n])

----------------------------------------------------------------------------
(* Properties of the coordinate inspector *)

\* C25: a mouse move reports coordinates only from an object that is in
\* the scene.
C25_RaycastAgainstScene ==
    lastEvent = "raycast" => tooltipFrom \in sceneObjects \cup {0}

\* C29: two runs of the raycast are 16 ms apart or more, and an event that
\* comes sooner after the last run is dropped and runs nothing.
C29_ThrottleSpacing ==
    /\ \A n \in 1..Len(raycastTimes) - 1 :
          raycastTimes[n + 1] - raycastTimes[n] >= ThrottleLimit
    /\ lastEvent = "dropped" =>
          /\ raycastTimes # <<>>
          /\ now - raycastTimes[Len(raycastTimes)] < ThrottleLimit
          /\ lastCallTime = raycastTimes[Len(raycastTimes)]
    /\ lastEvent = "raycast" => raycastTimes[Len(raycastTimes)] = now

C29_Witness ==
    /\ lastEvent = "dropped"
    /\ Len(raycastTimes) = 2
    /\ raycastTimes[2] - raycastTimes[1] = ThrottleLimit
    /\ now - raycastTimes[2] = 15

----------------------------------------------------------------------------
(* Properties of the curve builders and the element that shows them *)

\* C26: a catalog curve that the component draws as a mesh, its name among
\* the filled names, has a filled shape geometry.
C26_MeshHasShapeGeometry ==
    /\ pc2d = "done"
    /\ builder \in {"createParametricGeometry", "createPolarGeometry"}
    /\ graph.name \in FilledNames
    /\ Primitive(graph, NullGraph) = "mesh"
    => geometry.content = "ShapeGeometry"

----------------------------------------------------------------------------
(* Properties of parameter values *)

\* the height of the plane a*x + b*y + c*z = d at (x, y)
PlaneHeight(a, b, c, d, x, y) == Num(((d - Mul(a, x) - Mul(b, y)) * 1000) \div c)

\* C27: the plane built with supplied a, b, c, d has at every point the
\* height (d - a*x - b*y)/c of the supplied values, a = 0 included.
C27_ZeroIsUsedAsZero ==
    /\ pcCalc = "done"
    /\ calcFn = "calculateSurfaceZ"
    /\ graph.name = "Linear Function (Plane)"
    /\ controlValues \in PlaneMaps
    => calcResult = PlaneHeight(controlValues.a, controlValues.b, controlValues.c,
                                controlValues.d, calcAt.x, calcAt.y)

----------------------------------------------------------------------------
(* Properties of the canvas modes *)

\* C30: with the controls mounted, rotating and pan mode are never both on,
\* autoRotate equals isRotating and enableRotate equals the negation of
\* isPanMode, also between two handlers of one render.
C30_ControlsMirrorModes ==
    controlsMounted =>
        /\ ~(isRotating /\ isPanMode)
        /\ autoRotate = isRotating
        /\ enableRotate = ~isPanMode

C30_Witness ==
    /\ controlsMounted
    /\ handlersRun = MaxBatch
    /\ lastHandler = "Pan"
    /\ renderedRotating
    /\ isPanMode
    /\ ~enableRotate

----------------------------------------------------------------------------
(* Properties of Previous and Next as cyclic steps *)

\* the presses n + 1 .. n + k of the history are all op
AllPresses(n, k, op) == \A m \in n + 1..n + k : navHistory[m].op = op

\* C28: Next then Previous, and Previous then Next, restore the selected
\* graph; as many Next presses as the category has graphs return to the
\* starting graph and visit every graph of the category once.
C28_InverseCyclicSteps ==
    LET size == Len(categoryGraphs(selectedCategory))
    IN  /\ \A n \in 1..Len(navHistory) - 2 :
              {navHistory[n + 1].op, navHistory[n + 2].op} = {"next", "previous"}
                 => navHistory[n + 2].g = navHistory[n].g
        /\ \A n \in 1..Len(navHistory) - size :
              AllPresses(n, size, "next") =>
                 /\ navHistory[n + size].g = navHistory[n].g
                 /\ {navHistory[m].g : m \in n + 1..n + size}
                       = {categoryGraphs(selectedCategory)[m] : m \in 1..size}

C28_Witness ==
    /\ Len(categoryGraphs(selectedCategory)) = 3
    /\ Len(navHistory) = 5
    /\ AllPresses(1, 3, "next")
    /\ navHistory[5].op = "previous"
    /\ navHistory[5].g = navHistory[3].g
    /\ navHistory[4].g = navHistory[1].g

====
